---- MODULE Spec2Model ----
(***************************************************************************)
(* Model of bosty-radio: the Morse status lamp (MorseLED) with its blink    *)
(* thread, and the RadioController that drives it together with the audio  *)
(* and Bluetooth controllers.                                              *)
(*                                                                         *)
(* Texts are sequences of one-character strings.  The main thread's        *)
(* position is a stack of labels (pc), the head being the statement about  *)
(* to run; a call pushes the callee's labels in front of the caller's      *)
(* continuation.  Statements of the main thread that touch nothing a blink *)
(* thread reads or writes are grouped with their neighbours.               *)
(***************************************************************************)
EXTENDS Integers, Sequences, FiniteSets, TLC

VARIABLES
    setup_complete,    \* MorseLED._setup_complete
    lamp,              \* level last written to the LED pin (TRUE = HIGH)
    stop_event,        \* MorseLED._stop_event
    thread,            \* MorseLED._thread: a thread id, or 0 for None
    current_message,   \* MorseLED._current_message
    threads,           \* blink threads ever started: id -> [pc, pat, idx]
    joinRem,           \* at a join: ms until the joined thread next tests the flag
    pc,                \* main thread: stack of labels
    smArg,             \* argument of the start_message call in progress
    call,              \* the MorseLED call in progress or last returned
    current_position,  \* RadioController.current_position
    shutdown_requested,\* RadioController._shutdown_requested
    gpio_position,     \* GPIOController.current_position
    pins,              \* levels of the six switch inputs at the latest read
    position,          \* run(): the local `position`
    swArg,             \* argument of the _switch_to_position call in progress
    pairing_mode,      \* BluetoothController._pairing_mode
    is_connected,      \* BluetoothController._is_connected
    audio_url,         \* AudioController._current_url
    since_check,       \* run(): now - last_bluetooth_check at the latest clock reading, in whole
                       \* time units and no more than bluetooth_check_interval
    log,               \* collaborator calls of the latest transition or re-check
    origin,            \* what the log is of: "none", "switch", "recheck", "shutdown"
    trail,             \* the positions switched to, latest last, MaxTrail at most
    dot_ms,            \* the dot_duration_ms that MorseLED was constructed with
    emitted,           \* _blink_pattern: the levels held since the pattern began or,
                       \* later, the stop flag was set, as [on, ms] records, latest last
    stored,            \* what the file at ConfigManager.config_path holds
    config,            \* ConfigManager._config
    loaded             \* what the latest load() did: the configuration returned, or
                       \* the exception raised

morseVars == <<dot_ms, emitted>>

configVars == <<stored, config, loaded>>

ledVars == <<setup_complete, lamp, stop_event, thread, current_message,
             threads, joinRem, smArg, call, dot_ms, emitted>>

radioVars == <<current_position, shutdown_requested, gpio_position, pins,
               position, swArg, pairing_mode, is_connected, audio_url,
               since_check, log, origin, trail>>

vars == <<setup_complete, lamp, stop_event, thread, current_message,
          threads, joinRem, pc, smArg, call, current_position,
          shutdown_requested, gpio_position, pins, position, swArg,
          pairing_mode, is_connected, audio_url, since_check, log, origin, trail,
          dot_ms, emitted, stored, config, loaded>>

----------------------------------------------------------------------------
(* Bounds *)

MaxThreads == 2

ThreadIds == 1..MaxThreads

----------------------------------------------------------------------------
(* Program constants *)

DotMs == 100

JoinTimeoutMs == 1000

NapMs == 100

\* self.dot_duration, in milliseconds
dot_duration == dot_ms

dash_duration == dot_duration * 3

element_gap == dot_duration

\* a letter gap of two dot durations
letter_gap_short == dot_duration * 2

letter_gap == dot_duration * 3

word_gap == dot_duration * 7

MORSE_CODE ==
    [c \in {"A","B","C","D","E","F","G","H","I","J","K","L","M","N","O","P",
            "Q","R","S","T","U","V","W","X","Y","Z","0","1","2","3","4","5",
            "6","7","8","9",".",",","?"," "} |->
     CASE c = "A" -> <<".","-">>
       [] c = "B" -> <<"-",".",".",".">>
       [] c = "C" -> <<"-",".","-",".">>
       [] c = "D" -> <<"-",".",".">>
       [] c = "E" -> <<".">>
       [] c = "F" -> <<".",".","-",".">>
       [] c = "G" -> <<"-","-",".">>
       [] c = "H" -> <<".",".",".",".">>
       [] c = "I" -> <<".",".">>
       [] c = "J" -> <<".","-","-","-">>
       [] c = "K" -> <<"-",".","-">>
       [] c = "L" -> <<".","-",".",".">>
       [] c = "M" -> <<"-","-">>
       [] c = "N" -> <<"-",".">>
       [] c = "O" -> <<"-","-","-">>
       [] c = "P" -> <<".","-","-",".">>
       [] c = "Q" -> <<"-","-",".","-">>
       [] c = "R" -> <<".","-",".">>
       [] c = "S" -> <<".",".",".">>
       [] c = "T" -> <<"-">>
       [] c = "U" -> <<".",".","-">>
       [] c = "V" -> <<".",".",".","-">>
       [] c = "W" -> <<".","-","-">>
       [] c = "X" -> <<"-",".",".","-">>
       [] c = "Y" -> <<"-",".","-","-">>
       [] c = "Z" -> <<"-","-",".",".">>
       [] c = "0" -> <<"-","-","-","-","-">>
       [] c = "1" -> <<".","-","-","-","-">>
       [] c = "2" -> <<".",".","-","-","-">>
       [] c = "3" -> <<".",".",".","-","-">>
       [] c = "4" -> <<".",".",".",".","-">>
       [] c = "5" -> <<".",".",".",".",".">>
       [] c = "6" -> <<"-",".",".",".",".">>
       [] c = "7" -> <<"-","-",".",".",".">>
       [] c = "8" -> <<"-","-","-",".",".">>
       [] c = "9" -> <<"-","-","-","-",".">>
       [] c = "." -> <<".","-",".","-",".","-">>
       [] c = "," -> <<"-","-",".",".","-","-">>
       [] c = "?" -> <<".",".","-","-",".",".">>
       [] c = " " -> <<" ">>]

----------------------------------------------------------------------------
(* Signal encoder *)

LowerCase == <<"a","b","c","d","e","f","g","h","i","j","k","l","m",
               "n","o","p","q","r","s","t","u","v","w","x","y","z">>

UpperCase == <<"A","B","C","D","E","F","G","H","I","J","K","L","M",
               "N","O","P","Q","R","S","T","U","V","W","X","Y","Z">>

\* a conversion that leaves the case of a character as it is
UpperNone(c) == c

\* str.upper() on one character
Upper(c) ==
    IF \E i \in 1..26 : LowerCase[i] = c
    THEN UpperCase[CHOOSE i \in 1..26 : LowerCase[i] = c]
    ELSE c

\* the list `morse` built by the loop of _text_to_morse
RECURSIVE MorseList(_)
MorseList(text) ==
    IF text = <<>> THEN <<>>
    ELSE LET c == Upper(Head(text))
             rest == MorseList(Tail(text))
         IN IF c \in DOMAIN MORSE_CODE THEN <<MORSE_CODE[c]>> \o rest
            ELSE rest

\* " ".join(parts)
RECURSIVE JoinSpace(_)
JoinSpace(parts) ==
    IF parts = <<>> THEN <<>>
    ELSE IF Len(parts) = 1 THEN parts[1]
    ELSE parts[1] \o <<" ">> \o JoinSpace(Tail(parts))

\* MorseLED._text_to_morse
TextToMorse(text) == JoinSpace(MorseList(text))

\* time one element of a pattern keeps _blink_pattern busy
ElementMs(e) ==
    IF e = "." THEN dot_duration + element_gap
    ELSE IF e = "-" THEN dash_duration + element_gap
    ELSE IF e = " " THEN letter_gap - element_gap
    ELSE word_gap - letter_gap

\* time _blink_pattern needs for the elements from index i on
RECURSIVE SuffixMs(_, _)
SuffixMs(pat, i) ==
    IF i > Len(pat) THEN 0 ELSE ElementMs(pat[i]) + SuffixMs(pat, i + 1)

----------------------------------------------------------------------------
(* Blink threads *)

NoThread == [pc |-> "none", pat |-> <<>>, idx |-> 0]

DeadThread == [pc |-> "dead", pat |-> <<>>, idx |-> 0]

\* Thread.is_alive()
Alive(t) == threads[t].pc \notin {"none", "dead"}

AliveThreads == {t \in ThreadIds : Alive(t)}

IsMark(e) == e \in {".", "-"}

\* lamp-on time of a mark
OnMs(e) == IF e = "." THEN dot_duration ELSE dash_duration

\* time until thread t next evaluates `while not self._stop_event.is_set()`
RemainingMs(t) ==
    LET th == threads[t]
    IN CASE th.pc = "read" ->
              IF current_message # <<>>
              THEN SuffixMs(TextToMorse(current_message), 1) + word_gap
              ELSE NapMs
         [] th.pc = "enc" -> SuffixMs(TextToMorse(current_message), 1) + word_gap
         [] th.pc = "emit" -> SuffixMs(th.pat, th.idx) + word_gap
         [] th.pc = "lo" -> SuffixMs(th.pat, th.idx) - OnMs(th.pat[th.idx]) + word_gap
         [] th.pc = "gap" -> word_gap
         [] th.pc = "nap" -> NapMs
         [] OTHER -> 0

\* the main thread is inside join(timeout=1.0) on t, and t will not be back at
\* the loop test before the timeout expires
JoinOutlasted(t) ==
    /\ pc # <<>>
    /\ Head(pc) = "st_join"
    /\ thread = t
    /\ joinRem > JoinTimeoutMs

\* time t has spent since the join on it began, on reaching its position
Elapsed(t) == joinRem - RemainingMs(t)

\* while the main thread waits in join() on t, t does what it starts within
\* the timeout
CanStep(t) == JoinOutlasted(t) => Elapsed(t) <= JoinTimeoutMs

\* position after element idx of the pattern has been emitted
AfterElement(th) ==
    IF th.idx + 1 > Len(th.pat)
    THEN [pc |-> "gap", pat |-> <<>>, idx |-> 0]
    ELSE [th EXCEPT !.pc = "emit", !.idx = th.idx + 1]

\* _blink_loop: the while test
ThreadTest(t) ==
    /\ threads[t].pc = "test"
    /\ CanStep(t)
    /\ threads' = [threads EXCEPT ![t].pc = IF stop_event THEN "dead" ELSE "read"]
    /\ UNCHANGED <<setup_complete, lamp, stop_event, thread, current_message,
                   joinRem, pc, smArg, call>>
    /\ UNCHANGED radioVars
    /\ UNCHANGED morseVars
    /\ UNCHANGED configVars

\* _blink_loop: `if self._current_message:`
ThreadRead(t) ==
    /\ threads[t].pc = "read"
    /\ CanStep(t)
    /\ threads' = [threads EXCEPT
                     ![t].pc = IF current_message # <<>> THEN "enc" ELSE "nap"]
    /\ UNCHANGED <<setup_complete, lamp, stop_event, thread, current_message,
                   joinRem, pc, smArg, call>>
    /\ UNCHANGED radioVars
    /\ UNCHANGED morseVars
    /\ UNCHANGED configVars

\* _blink_loop: morse_pattern = self._text_to_morse(self._current_message)
ThreadEncode(t) ==
    /\ threads[t].pc = "enc"
    /\ CanStep(t)
    /\ LET pat == TextToMorse(current_message)
       IN threads' = [threads EXCEPT
                        ![t] = [pc |-> IF pat = <<>> THEN "gap" ELSE "emit",
                                pat |-> pat, idx |-> 1]]
    /\ UNCHANGED <<setup_complete, lamp, stop_event, thread, current_message,
                   joinRem, pc, smArg, call>>
    /\ UNCHANGED radioVars
    /\ UNCHANGED morseVars
    /\ UNCHANGED configVars

\* _blink_pattern: one element, up to its lamp-on write (a mark) or its
\* sleep (a gap).  GPIO.output raises on a pin that is not set up.
ThreadEmit(t) ==
    /\ threads[t].pc = "emit"
    /\ CanStep(t)
    /\ LET th == threads[t]
           e == th.pat[th.idx]
       IN IF IsMark(e)
          THEN IF setup_complete
               THEN /\ lamp' = TRUE
                    /\ threads' = [threads EXCEPT ![t].pc = "lo"]
               ELSE /\ lamp' = lamp
                    /\ threads' = [threads EXCEPT ![t] = DeadThread]
          ELSE /\ lamp' = lamp
               /\ threads' = [threads EXCEPT ![t] = AfterElement(th)]
    /\ UNCHANGED <<setup_complete, stop_event, thread, current_message,
                   joinRem, pc, smArg, call>>
    /\ UNCHANGED radioVars
    /\ UNCHANGED morseVars
    /\ UNCHANGED configVars

\* _blink_pattern: the lamp-off write of a mark and its element gap
ThreadLow(t) ==
    /\ threads[t].pc = "lo"
    /\ CanStep(t)
    /\ IF setup_complete
       THEN /\ lamp' = FALSE
            /\ threads' = [threads EXCEPT ![t] = AfterElement(threads[t])]
       ELSE /\ lamp' = lamp
            /\ threads' = [threads EXCEPT ![t] = DeadThread]
    /\ UNCHANGED <<setup_complete, stop_event, thread, current_message,
                   joinRem, pc, smArg, call>>
    /\ UNCHANGED radioVars
    /\ UNCHANGED morseVars
    /\ UNCHANGED configVars

\* _blink_loop: time.sleep(self.word_gap) between repeats
ThreadGap(t) ==
    /\ threads[t].pc = "gap"
    /\ CanStep(t)
    /\ threads' = [threads EXCEPT ![t].pc = "test"]
    /\ UNCHANGED <<setup_complete, lamp, stop_event, thread, current_message,
                   joinRem, pc, smArg, call>>
    /\ UNCHANGED radioVars
    /\ UNCHANGED morseVars
    /\ UNCHANGED configVars

\* _blink_loop: time.sleep(0.1) when there is no message
ThreadNap(t) ==
    /\ threads[t].pc = "nap"
    /\ CanStep(t)
    /\ threads' = [threads EXCEPT ![t].pc = "test"]
    /\ UNCHANGED <<setup_complete, lamp, stop_event, thread, current_message,
                   joinRem, pc, smArg, call>>
    /\ UNCHANGED radioVars
    /\ UNCHANGED morseVars
    /\ UNCHANGED configVars

----------------------------------------------------------------------------
(* MorseLED: the calls of the main thread *)

NoCall == [op |-> "none", msg |-> <<>>, level |-> FALSE, timedOut |-> FALSE,
           idle |-> FALSE]

\* Scheduler state Idle: lamp off, no run
Idle == ~lamp /\ AliveThreads = {}

AtHead(l) == pc # <<>> /\ Head(pc) = l

\* lamp level after MorseLED.setup()
LampAfterSetup == IF setup_complete THEN lamp ELSE FALSE

\* start_message: setup, self._current_message = message, then call stop()
SmBegin ==
    /\ AtHead("sm_begin")
    /\ setup_complete' = TRUE
    /\ lamp' = LampAfterSetup
    /\ current_message' = smArg
    /\ pc' = <<"st_set", "sm_start">> \o Tail(pc)
    /\ smArg' = <<>>
    /\ UNCHANGED <<stop_event, thread, threads, joinRem, call>>
    /\ UNCHANGED radioVars
    /\ UNCHANGED morseVars
    /\ UNCHANGED configVars

\* stop: self._stop_event.set(), then the is_alive() test that guards join()
StSet ==
    /\ AtHead("st_set")
    /\ stop_event' = TRUE
    /\ IF thread # 0 /\ Alive(thread)
       THEN /\ joinRem' = IF RemainingMs(thread) > JoinTimeoutMs
                           THEN RemainingMs(thread)
                           ELSE 0
            /\ pc' = <<"st_join">> \o Tail(pc)
       ELSE /\ joinRem' = 0
            /\ pc' = <<"st_low">> \o Tail(pc)
    /\ UNCHANGED <<setup_complete, lamp, thread, current_message, threads,
                   smArg, call>>
    /\ UNCHANGED radioVars
    /\ UNCHANGED morseVars
    /\ UNCHANGED configVars

\* stop: self._thread.join(timeout=1.0) returns, the thread having ended or
\* the timeout having expired
StJoin ==
    /\ AtHead("st_join")
    /\ \/ /\ ~Alive(thread)
          /\ call' = call
       \/ /\ Alive(thread)
          /\ joinRem > JoinTimeoutMs
          /\ Elapsed(thread) >= JoinTimeoutMs
          /\ call' = [call EXCEPT !.timedOut = TRUE]
    /\ pc' = <<"st_low">> \o Tail(pc)
    /\ joinRem' = 0
    /\ UNCHANGED <<setup_complete, lamp, stop_event, thread, current_message,
                   threads, smArg>>
    /\ UNCHANGED radioVars
    /\ UNCHANGED morseVars
    /\ UNCHANGED configVars

StopLevelHigh == TRUE

\* level stop() writes to the lamp
StopLevel == FALSE

\* stop: GPIO.output(self.pin, GPIO.LOW) when set up
StLow ==
    /\ AtHead("st_low")
    /\ lamp' = IF setup_complete THEN StopLevel ELSE lamp
    /\ pc' = <<"st_clr">> \o Tail(pc)
    /\ UNCHANGED <<setup_complete, stop_event, thread, current_message,
                   threads, joinRem, smArg, call>>
    /\ UNCHANGED radioVars
    /\ UNCHANGED morseVars
    /\ UNCHANGED configVars

\* stop: self._current_message = "", and return
StClr ==
    /\ AtHead("st_clr")
    /\ current_message' = <<>>
    /\ pc' = Tail(pc)
    /\ UNCHANGED <<setup_complete, lamp, stop_event, thread, threads, joinRem,
                   smArg, call>>
    /\ UNCHANGED radioVars
    /\ UNCHANGED morseVars
    /\ UNCHANGED configVars

FreeIds == {t \in ThreadIds : ~Alive(t)}

\* start_message: self._stop_event.clear(), create and start the thread,
\* and return.  The threads are kept in the order of their start, latest
\* first: self._thread is the first, the runs that outlived their join follow,
\* and a thread that has ended is forgotten
SmStart ==
    /\ AtHead("sm_start")
    /\ FreeIds # {}
    /\ LET started == [pc |-> "test", pat |-> <<>>, idx |-> 0]
           older == SelectSeq(threads, LAMBDA th : th.pc \notin {"none", "dead"})
           all == <<started>> \o older
       IN threads' = [t \in ThreadIds |->
                        IF t <= Len(all) THEN all[t] ELSE NoThread]
    /\ thread' = 1
    /\ stop_event' = FALSE
    /\ pc' = Tail(pc)
    /\ UNCHANGED <<setup_complete, lamp, current_message, joinRem, smArg, call>>
    /\ UNCHANGED radioVars
    /\ UNCHANGED morseVars
    /\ UNCHANGED configVars

----------------------------------------------------------------------------
(* A client that calls MorseLED in any order *)

Messages == {<<"E">>, <<"B", "T">>}

ClientStartMessage ==
    /\ AtHead("client")
    /\ \E m \in Messages :
         /\ smArg' = m
         /\ call' = [op |-> "start_message", msg |-> m, level |-> FALSE,
                     timedOut |-> FALSE, idle |-> Idle]
    /\ pc' = <<"sm_begin">> \o pc
    /\ UNCHANGED <<setup_complete, lamp, stop_event, thread, current_message,
                   threads, joinRem>>
    /\ UNCHANGED radioVars
    /\ UNCHANGED morseVars
    /\ UNCHANGED configVars

ClientStop ==
    /\ AtHead("client")
    /\ call' = [op |-> "stop", msg |-> <<>>, level |-> FALSE,
                timedOut |-> FALSE, idle |-> Idle]
    /\ pc' = <<"st_set">> \o pc
    /\ UNCHANGED <<setup_complete, lamp, stop_event, thread, current_message,
                   threads, joinRem, smArg>>
    /\ UNCHANGED radioVars
    /\ UNCHANGED morseVars
    /\ UNCHANGED configVars

SetLevelInverted(state) == ~state

\* set_state: the level written, GPIO.HIGH if state else GPIO.LOW
SetLevel(state) == state

\* MorseLED.set_state
SetState(state) ==
    /\ setup_complete' = TRUE
    /\ lamp' = SetLevel(state)
    /\ call' = [op |-> "set_state", msg |-> <<>>, level |-> state,
                timedOut |-> FALSE, idle |-> Idle]
    /\ UNCHANGED <<stop_event, thread, current_message, threads, joinRem, smArg>>
    /\ UNCHANGED morseVars
    /\ UNCHANGED configVars

ClientSetState ==
    /\ AtHead("client")
    /\ \E b \in BOOLEAN : SetState(b)
    /\ pc' = pc
    /\ UNCHANGED radioVars
    /\ UNCHANGED morseVars
    /\ UNCHANGED configVars

BlinkStep ==
    \E t \in ThreadIds :
        \/ ThreadTest(t)
        \/ ThreadRead(t)
        \/ ThreadEncode(t)
        \/ ThreadEmit(t)
        \/ ThreadLow(t)
        \/ ThreadGap(t)
        \/ ThreadNap(t)

LedInit ==
    /\ setup_complete = FALSE
    /\ lamp = FALSE
    /\ stop_event = FALSE
    /\ thread = 0
    /\ current_message = <<>>
    /\ threads = [t \in ThreadIds |-> NoThread]
    /\ joinRem = 0
    /\ smArg = <<>>
    /\ call = NoCall
    /\ dot_ms = DotMs
    /\ emitted = <<>>

----------------------------------------------------------------------------
(* Configuration: RadioConfig's defaults, with a locator for each station *)

None == -1

Stations ==
    << [url |-> <<"u", "1">>, morse_message |-> <<"S", "1">>],
       [url |-> <<"u", "2">>, morse_message |-> <<"S", "2">>],
       [url |-> <<"u", "3">>, morse_message |-> <<"S", "3">>],
       [url |-> <<"u", "4">>, morse_message |-> <<"S", "4">>],
       [url |-> <<"u", "5">>, morse_message |-> <<"F", "1">>] >>

bluetooth_morse == <<"B", "T">>

Pins == 0..5

\* the switch is turned among the stations 0..MaxStation and position 5
MaxStation == 0

SampledPins == {i \in Pins : i <= MaxStation \/ i = 5}

\* the levels the rotary switch presents: one sampled input HIGH, or none
\* while the switch travels between two positions
PinReadings ==
    {levels \in [Pins -> BOOLEAN] :
        /\ \A i \in Pins : levels[i] => i \in SampledPins
        /\ \A i, j \in Pins : (levels[i] /\ levels[j]) => i = j}

----------------------------------------------------------------------------
(* ConfigManager and the validation of RadioConfig.  A stored file is taken by
   what json.load makes of it: no file, a text that is not JSON, or a JSON value
   of some kind; of an object, the number of its stations and its
   morse_dot_duration_ms matter, each present or absent. *)

Absent == <<>>

Present(v) == <<v>>

StationCounts == {4, 5, 6}

DotValues == {49, 50, 500, 501}

OptionalOf(S) == {Absent} \cup {Present(v) : v \in S}

FileOf(kind) == [kind |-> kind, stations |-> Absent, dot |-> Absent]

Files ==
    {FileOf(kind) : kind \in {"missing", "not_json", "array", "string",
                              "number", "null"}}
    \cup {[kind |-> "object", stations |-> s, dot |-> d] :
             s \in OptionalOf(StationCounts), d \in OptionalOf(DotValues)}

\* ConfigManager._config is None
NoConfig == [stations |-> 0, dot |-> 0]

\* RadioConfig(): five stations and the default dot duration
DefaultConfig == [stations |-> Len(Stations), dot |-> DotMs]

\* what json.load and RadioConfig(**data) raise for a file: a text that is not
\* JSON fails to parse, ** needs a mapping, validate_stations wants five
\* stations and morse_dot_duration_ms has ge=50, le=500
LoadRaises(file) ==
    IF file.kind = "not_json" THEN "JSONDecodeError"
    ELSE IF file.kind # "object" THEN "TypeError"
    ELSE IF file.stations # Absent /\ file.stations[1] # 5 THEN "ValidationError"
    ELSE IF file.dot # Absent /\ (file.dot[1] < 50 \/ file.dot[1] > 500)
    THEN "ValidationError"
    ELSE "none"

\* RadioConfig(**data) for an object that passes validation
Constructed(file) ==
    [stations |-> IF file.stations = Absent THEN DefaultConfig.stations
                  ELSE file.stations[1],
     dot |-> IF file.dot = Absent THEN DefaultConfig.dot ELSE file.dot[1]]

\* load: `except (json.JSONDecodeError, ValueError)`; pydantic's
\* ValidationError is a ValueError
Caught(exc) == exc \in {"JSONDecodeError", "ValidationError"}

LoadReturned(cfg) == [raised |-> "none", config |-> cfg]

LoadRaised(exc) == [raised |-> exc, config |-> NoConfig]

\* the configuration main() starts the controller with: no stored file
ConfigInit ==
    /\ stored = FileOf("missing")
    /\ config = DefaultConfig
    /\ loaded = LoadReturned(DefaultConfig)

----------------------------------------------------------------------------
(* GPIOController, BluetoothController, AudioController *)

ReadIndexLast(levels) ==
    IF \E i \in Pins : levels[i]
    THEN CHOOSE i \in Pins : levels[i] /\ \A j \in Pins : j > i => ~levels[j]
    ELSE None

ReadIndexOrFirst(levels) ==
    IF \E i \in Pins : levels[i]
    THEN CHOOSE i \in Pins : levels[i] /\ \A j \in Pins : j < i => ~levels[j]
    ELSE 0

\* read_position: the first pin that reads HIGH, in index order
ReadIndex(levels) ==
    IF \E i \in Pins : levels[i]
    THEN CHOOSE i \in Pins : levels[i] /\ \A j \in Pins : j < i => ~levels[j]
    ELSE None

CallbackFiresAlways(index) == index # None

CallbackFiresNever(index) == FALSE

\* read_position: `if self.current_position != index` for the pin found HIGH
CallbackFires(index) == index # None /\ gpio_position # index

\* one collaborator call: its name, its text argument, whether it succeeded
Entry(op, arg, ok) == [op |-> op, arg |-> arg, ok |-> ok]

AfterDisablePairingKeep(ok) == pairing_mode

\* disable_pairing_mode: _pairing_mode becomes False unless a command raised
AfterDisablePairing(ok) == IF ok THEN FALSE ELSE pairing_mode

\* enable_pairing_mode, as called first by switch_to_bluetooth_sink
AfterEnablePairing(ok) == IF ok THEN TRUE ELSE pairing_mode

\* play_stream: _current_url is set only when playback is confirmed
AfterPlayStream(url, ok) == IF ok THEN url ELSE audio_url

AfterAudioStopKeep(ok) == audio_url

\* AudioController.stop: _current_url = None unless mpc raised
AfterAudioStop(ok) == IF ok THEN <<>> ELSE audio_url

\* `bluetoothctl info` as check_connection_status sees it: exit 0 with or
\* without "connected: yes" in the output, a non-zero exit, an exception
StatusOutcomes == {"yes", "no", "nonzero", "raises"}

\* check_connection_status: the cached flag follows a status that was read
AfterCheckStatus(outcome) ==
    IF outcome = "yes" THEN TRUE
    ELSE IF outcome = "no" THEN FALSE
    ELSE is_connected

----------------------------------------------------------------------------
(* RadioController *)

RunLabels == {"run_loop", "run_cmp", "run_bt", "run_sleep"}

\* the main loop is between two calls: no transition or re-check in progress
AtRunLevel == pc # <<>> /\ Head(pc) \in RunLabels

CallRecord(op, msg, level) ==
    [op |-> op, msg |-> msg, level |-> level, timedOut |-> FALSE, idle |-> Idle]

\* _signal_handler, on SIGINT or SIGTERM.  Only the while test of run() reads
\* the flag, so a signal that arrives during an iteration is taken here, just
\* before that test
SignalHandler ==
    /\ ~shutdown_requested
    /\ AtHead("run_loop")
    /\ shutdown_requested' = TRUE
    /\ UNCHANGED <<pc, current_position, gpio_position, pins, trail, position,
                   swArg, pairing_mode, is_connected, audio_url, since_check,
                   log, origin>>
    /\ UNCHANGED ledVars
    /\ UNCHANGED configVars

\* run: `position is not None and position != self.current_position`
Differs(p) == p # None /\ p # current_position

\* run: `bluetooth_check_interval = 2.0`, in time units of the loop's clock
bluetooth_check_interval == 2

\* the values now - last_bluetooth_check can have at the next reading of the
\* clock when it was t at this one: the clock does not run backwards
Later(t) ==
    { IF t + d > bluetooth_check_interval THEN bluetooth_check_interval ELSE t + d :
        d \in 0..bluetooth_check_interval }

BluetoothCheckAlways == current_position = 5

\* run: `self.current_position == 5` and
\* `now - last_bluetooth_check >= bluetooth_check_interval`
BluetoothCheckDue ==
    current_position = 5 /\ since_check >= bluetooth_check_interval

\* run: the time.sleep(0.1) that ends an iteration, during which the clock
\* advances from `since`; the call records start afresh
EndIteration(since) ==
    /\ since_check' \in Later(since)
    /\ log' = <<>>
    /\ origin' = "none"
    /\ call' = NoCall
    /\ pc' = <<"run_loop">>

\* run: the while test and self.gpio.read_position() up to its callback; when
\* read_position makes no callback, the rest of the iteration up to a call of
\* _switch_to_position or _update_bluetooth_led
RunLoop ==
    /\ AtHead("run_loop")
    /\ IF shutdown_requested
       THEN /\ pc' = <<"shutdown">>
            /\ UNCHANGED <<gpio_position, pins, position, swArg, since_check,
                           log, origin, call>>
       ELSE \E levels \in PinReadings :
              LET index == ReadIndex(levels)
              IN /\ pins' = levels
                 /\ gpio_position' = index
                 /\ IF CallbackFires(index)
                    THEN /\ swArg' = index
                         /\ position' = index
                         /\ pc' = <<"sw_pos", "run_cmp">>
                         /\ UNCHANGED <<since_check, log, origin, call>>
                    ELSE IF Differs(index)
                    THEN /\ swArg' = index
                         /\ position' = None
                         /\ pc' = <<"sw_pos", "run_bt">>
                         /\ UNCHANGED <<since_check, log, origin, call>>
                    ELSE IF BluetoothCheckDue
                    THEN /\ pc' = <<"ubl", "run_sleep">>
                         /\ UNCHANGED <<position, swArg, since_check, log,
                                        origin, call>>
                    ELSE /\ EndIteration(since_check)
                         /\ UNCHANGED <<position, swArg>>
    /\ UNCHANGED <<current_position, shutdown_requested, pairing_mode,
                   is_connected, audio_url, trail>>
    /\ UNCHANGED <<setup_complete, lamp, stop_event, thread, current_message,
                   threads, joinRem, smArg>>
    /\ UNCHANGED morseVars
    /\ UNCHANGED configVars

BranchOfStation(p) == <<"sta_disable">>

\* _switch_to_position: the branch taken for a new position
BranchOf(p) ==
    IF p < 5 THEN <<"sta_disable">>
    ELSE IF p = 5 THEN <<"bt_stop">>
    ELSE <<>>

\* the trail keeps the latest MaxTrail positions
MaxTrail == 3

Latest(t) == IF Len(t) > MaxTrail THEN Tail(t) ELSE t

SamePositionNever(p) == FALSE

SamePositionAlways(p) == TRUE

\* _switch_to_position: `if position == self.current_position: return`
SamePosition(p) == p = current_position

\* _switch_to_position(swArg)
SwitchToPosition ==
    /\ AtHead("sw_pos")
    /\ IF SamePosition(swArg)
       THEN /\ pc' = Tail(pc)
            /\ UNCHANGED <<current_position, log, origin, trail>>
       ELSE /\ current_position' = swArg
            /\ log' = <<>>
            /\ origin' = "switch"
            /\ trail' = Latest(Append(trail, swArg))
            /\ pc' = BranchOf(swArg) \o Tail(pc)
    /\ swArg' = None
    /\ UNCHANGED <<shutdown_requested, gpio_position, pins, position,
                   pairing_mode, is_connected, audio_url, since_check>>
    /\ UNCHANGED ledVars
    /\ UNCHANGED configVars

\* _switch_to_station: the message handed to start_message
StationMessage(i) == Stations[i + 1].morse_message

StationUrlOfNext(i) == Stations[((i + 1) % Len(Stations)) + 1].url

\* _switch_to_station: the locator handed to play_stream
StationUrl(i) == Stations[i + 1].url

\* _switch_to_station: disable_pairing_mode(), then the call of start_message
StationDisable ==
    /\ AtHead("sta_disable")
    /\ IF current_position >= Len(Stations)
       THEN /\ pc' = Tail(pc)
            /\ UNCHANGED <<pairing_mode, log, smArg, call>>
       ELSE /\ \E ok \in BOOLEAN :
                 /\ pairing_mode' = AfterDisablePairing(ok)
                 /\ log' = log \o
                      <<Entry("disable_pairing_mode", <<>>, ok),
                        Entry("start_message", StationMessage(current_position), TRUE)>>
            /\ smArg' = StationMessage(current_position)
            /\ call' = CallRecord("start_message", StationMessage(current_position), FALSE)
            /\ pc' = <<"sm_begin", "sta_play">> \o Tail(pc)
    /\ UNCHANGED <<current_position, shutdown_requested, gpio_position, pins, trail,
                   position, swArg, is_connected, audio_url, since_check, origin>>
    /\ UNCHANGED <<setup_complete, lamp, stop_event, thread, current_message,
                   threads, joinRem>>
    /\ UNCHANGED morseVars
    /\ UNCHANGED configVars

\* _switch_to_station: self.audio.play_stream(station.url)
StationPlay ==
    /\ AtHead("sta_play")
    /\ \E ok \in BOOLEAN :
         /\ audio_url' = AfterPlayStream(StationUrl(current_position), ok)
         /\ log' = Append(log, Entry("play_stream", StationUrl(current_position), ok))
    /\ pc' = Tail(pc)
    /\ UNCHANGED <<current_position, shutdown_requested, gpio_position, pins, trail,
                   position, swArg, pairing_mode, is_connected, since_check,
                   origin>>
    /\ UNCHANGED ledVars
    /\ UNCHANGED configVars

\* _switch_to_bluetooth: self.audio.stop(), then the call of start_message
BluetoothStop ==
    /\ AtHead("bt_stop")
    /\ \E ok \in BOOLEAN :
         /\ audio_url' = AfterAudioStop(ok)
         /\ log' = log \o <<Entry("audio_stop", <<>>, ok),
                            Entry("start_message", bluetooth_morse, TRUE)>>
    /\ smArg' = bluetooth_morse
    /\ call' = CallRecord("start_message", bluetooth_morse, FALSE)
    /\ pc' = <<"sm_begin", "bt_sink">> \o Tail(pc)
    /\ UNCHANGED <<current_position, shutdown_requested, gpio_position, pins, trail,
                   position, swArg, pairing_mode, is_connected, since_check,
                   origin>>
    /\ UNCHANGED <<setup_complete, lamp, stop_event, thread, current_message,
                   threads, joinRem>>
    /\ UNCHANGED morseVars
    /\ UNCHANGED configVars

\* _switch_to_bluetooth: self.bluetooth.switch_to_bluetooth_sink()
BluetoothSink ==
    /\ AtHead("bt_sink")
    /\ \E ok \in BOOLEAN :
         /\ pairing_mode' = AfterEnablePairing(ok)
         /\ log' = Append(log, Entry("switch_to_bluetooth_sink", <<>>, ok))
    /\ pc' = Tail(pc)
    /\ UNCHANGED <<current_position, shutdown_requested, gpio_position, pins, trail,
                   position, swArg, is_connected, audio_url, since_check, origin>>
    /\ UNCHANGED ledVars
    /\ UNCHANGED configVars

\* run: the comparison after a read_position that made its callback
RunCompare ==
    /\ AtHead("run_cmp")
    /\ IF Differs(position)
       THEN /\ swArg' = position
            /\ pc' = <<"sw_pos", "run_bt">>
       ELSE /\ swArg' = swArg
            /\ pc' = <<"run_bt">>
    /\ position' = None
    /\ UNCHANGED <<current_position, shutdown_requested, gpio_position, pins, trail,
                   pairing_mode, is_connected, audio_url, since_check, log,
                   origin>>
    /\ UNCHANGED ledVars
    /\ UNCHANGED configVars

\* run: the periodic test, after an iteration that called
\* _switch_to_position
RunBluetooth ==
    /\ AtHead("run_bt")
    /\ IF BluetoothCheckDue
       THEN /\ pc' = <<"ubl", "run_sleep">>
            /\ UNCHANGED <<since_check, log, origin, call>>
       ELSE EndIteration(since_check)
    /\ UNCHANGED <<current_position, shutdown_requested, gpio_position, pins, trail,
                   position, swArg, pairing_mode, is_connected, audio_url>>
    /\ UNCHANGED <<setup_complete, lamp, stop_event, thread, current_message,
                   threads, joinRem, smArg>>
    /\ UNCHANGED morseVars
    /\ UNCHANGED configVars

\* _update_bluetooth_led: the guard, then the call of
\* check_connection_status(), which starts `bluetoothctl info` and waits for it
UpdateBluetoothLed ==
    /\ AtHead("ubl")
    /\ IF current_position # 5
       THEN /\ pc' = Tail(pc)
            /\ UNCHANGED <<log, origin>>
       ELSE /\ pc' = <<"ubl_query">> \o Tail(pc)
            /\ log' = <<>>
            /\ origin' = "recheck"
    /\ UNCHANGED <<current_position, shutdown_requested, gpio_position, pins, trail,
                   position, swArg, pairing_mode, is_connected, audio_url,
                   since_check>>
    /\ UNCHANGED ledVars
    /\ UNCHANGED configVars

\* _update_bluetooth_led: check_connection_status() returns; then stop() when
\* connected, set_state(False) and the call of start_message when not
CheckConnectionStatus ==
    /\ AtHead("ubl_query")
    /\ \E outcome \in StatusOutcomes :
         /\ is_connected' = AfterCheckStatus(outcome)
         /\ IF outcome = "yes"
            THEN /\ log' = <<Entry("check_connection_status", <<>>, TRUE),
                             Entry("stop", <<>>, TRUE)>>
                 /\ call' = CallRecord("stop", <<>>, FALSE)
                 /\ pc' = <<"st_set", "ubl_on">> \o Tail(pc)
                 /\ UNCHANGED <<smArg, setup_complete, lamp>>
            ELSE /\ log' = <<Entry("check_connection_status", <<>>, FALSE),
                             Entry("set_state", <<"off">>, TRUE),
                             Entry("start_message", bluetooth_morse, TRUE)>>
                 /\ setup_complete' = TRUE
                 /\ lamp' = SetLevel(FALSE)
                 /\ smArg' = bluetooth_morse
                 /\ call' = CallRecord("start_message", bluetooth_morse, FALSE)
                 /\ pc' = <<"sm_begin">> \o Tail(pc)
    /\ UNCHANGED <<current_position, shutdown_requested, gpio_position, pins, trail,
                   position, swArg, pairing_mode, audio_url, since_check, origin>>
    /\ UNCHANGED <<stop_event, thread, current_message, threads, joinRem>>
    /\ UNCHANGED morseVars
    /\ UNCHANGED configVars

\* _update_bluetooth_led: self.morse_led.set_state(True)
UpdateBluetoothLedOn ==
    /\ AtHead("ubl_on")
    /\ SetState(TRUE)
    /\ log' = Append(log, Entry("set_state", <<"on">>, TRUE))
    /\ pc' = Tail(pc)
    /\ UNCHANGED <<current_position, shutdown_requested, gpio_position, pins, trail,
                   position, swArg, pairing_mode, is_connected, audio_url,
                   since_check, origin>>
    /\ UNCHANGED morseVars
    /\ UNCHANGED configVars

\* run: `last_bluetooth_check = now` after _update_bluetooth_led returned,
\* then the end of the iteration
RunSleep ==
    /\ AtHead("run_sleep")
    /\ EndIteration(0)
    /\ UNCHANGED <<current_position, shutdown_requested, gpio_position, pins, trail,
                   position, swArg, pairing_mode, is_connected, audio_url>>
    /\ UNCHANGED <<setup_complete, lamp, stop_event, thread, current_message,
                   threads, joinRem, smArg>>
    /\ UNCHANGED morseVars
    /\ UNCHANGED configVars

\* shutdown: audio.stop(), disable_pairing_mode(), then morse_led.stop()
Shutdown ==
    /\ AtHead("shutdown")
    /\ \E ok1, ok2 \in BOOLEAN :
         /\ audio_url' = AfterAudioStop(ok1)
         /\ pairing_mode' = AfterDisablePairing(ok2)
         /\ log' = <<Entry("audio_stop", <<>>, ok1),
                     Entry("disable_pairing_mode", <<>>, ok2),
                     Entry("stop", <<>>, TRUE)>>
    /\ origin' = "shutdown"
    /\ call' = CallRecord("stop", <<>>, FALSE)
    /\ pc' = <<"st_set", "sd_cleanup">>
    /\ UNCHANGED <<current_position, shutdown_requested, gpio_position, pins, trail,
                   position, swArg, is_connected, since_check>>
    /\ UNCHANGED <<setup_complete, lamp, stop_event, thread, current_message,
                   threads, joinRem, smArg>>
    /\ UNCHANGED morseVars
    /\ UNCHANGED configVars

\* shutdown: morse_led.cleanup(), which calls stop() first
ShutdownCleanup ==
    /\ AtHead("sd_cleanup")
    /\ log' = Append(log, Entry("cleanup", <<>>, TRUE))
    /\ call' = CallRecord("cleanup", <<>>, FALSE)
    /\ pc' = <<"st_set", "sd_gpio">>
    /\ UNCHANGED <<current_position, shutdown_requested, gpio_position, pins, trail,
                   position, swArg, pairing_mode, is_connected, audio_url,
                   since_check, origin>>
    /\ UNCHANGED <<setup_complete, lamp, stop_event, thread, current_message,
                   threads, joinRem, smArg>>
    /\ UNCHANGED morseVars
    /\ UNCHANGED configVars

AfterLedCleanupKept == setup_complete

\* MorseLED.cleanup: `self._setup_complete = False` with GPIO.cleanup(self.pin)
AfterLedCleanup == FALSE

\* MorseLED.cleanup after its stop(): GPIO.cleanup(self.pin), which makes the
\* lamp pin an input again
ShutdownRelease ==
    /\ AtHead("sd_gpio")
    /\ setup_complete' = AfterLedCleanup
    /\ lamp' = IF setup_complete THEN FALSE ELSE lamp
    /\ pc' = <<"sd_sampler">>
    /\ UNCHANGED <<current_position, shutdown_requested, gpio_position, pins, trail,
                   position, swArg, pairing_mode, is_connected, audio_url,
                   since_check, log, origin>>
    /\ UNCHANGED <<stop_event, thread, current_message, threads, joinRem,
                   smArg, call>>
    /\ UNCHANGED morseVars
    /\ UNCHANGED configVars

\* the lamp pin is configured as an output, which _setup_complete records
LampPinConfigured == setup_complete

\* shutdown: self.gpio.cleanup(), whose GPIO.cleanup() names no channel and
\* so makes every pin that is still configured an input again
GpioCleanup ==
    /\ AtHead("sd_sampler")
    /\ lamp' = IF LampPinConfigured THEN FALSE ELSE lamp
    /\ log' = Append(log, Entry("gpio_cleanup", <<>>, TRUE))
    /\ pc' = <<"done">>
    /\ UNCHANGED <<current_position, shutdown_requested, gpio_position, pins, trail,
                   position, swArg, pairing_mode, is_connected, audio_url,
                   since_check, origin>>
    /\ UNCHANGED <<setup_complete, stop_event, thread, current_message,
                   threads, joinRem, smArg, call>>
    /\ UNCHANGED morseVars
    /\ UNCHANGED configVars

RadioInit ==
    /\ current_position = None
    /\ shutdown_requested = FALSE
    /\ gpio_position = None
    /\ pins = [i \in Pins |-> FALSE]
    /\ position = None
    /\ swArg = None
    /\ pairing_mode = FALSE
    /\ is_connected = FALSE
    /\ audio_url = <<>>
    /\ since_check = bluetooth_check_interval
    /\ log = <<>>
    /\ origin = "none"
    /\ trail = <<>>

\* the state run() starts in, after __init__ and setup()
Init ==
    /\ ConfigInit
    /\ RadioInit
    /\ setup_complete = TRUE
    /\ lamp = FALSE
    /\ stop_event = FALSE
    /\ thread = 0
    /\ current_message = <<>>
    /\ threads = [t \in ThreadIds |-> NoThread]
    /\ joinRem = 0
    /\ smArg = <<>>
    /\ call = NoCall
    /\ dot_ms = DotMs
    /\ emitted = <<>>
    /\ pc = <<"run_loop">>

Next ==
    \/ SignalHandler
    \/ RunLoop
    \/ SwitchToPosition
    \/ StationDisable
    \/ StationPlay
    \/ BluetoothStop
    \/ BluetoothSink
    \/ RunCompare
    \/ RunBluetooth
    \/ UpdateBluetoothLed
    \/ CheckConnectionStatus
    \/ UpdateBluetoothLedOn
    \/ RunSleep
    \/ Shutdown
    \/ ShutdownCleanup
    \/ ShutdownRelease
    \/ GpioCleanup
    \/ SmBegin
    \/ StSet
    \/ StJoin
    \/ StLow
    \/ StClr
    \/ SmStart
    \/ BlinkStep

Spec == Init /\ [][Next]_vars

InitLED ==
    /\ ConfigInit
    /\ LedInit
    /\ RadioInit
    /\ pc = <<"client">>

NextLED ==
    \/ ClientStartMessage
    \/ ClientStop
    \/ ClientSetState
    \/ SmBegin
    \/ StSet
    \/ StJoin
    \/ StLow
    \/ StClr
    \/ SmStart
    \/ BlinkStep

SpecLED == InitLED /\ [][NextLED]_vars

\* one step of blink thread t
ThreadStep(t) ==
    \/ ThreadTest(t)
    \/ ThreadRead(t)
    \/ ThreadEncode(t)
    \/ ThreadEmit(t)
    \/ ThreadLow(t)
    \/ ThreadGap(t)
    \/ ThreadNap(t)

\* the main thread inside a call of start_message or stop
CallStep == SmBegin \/ StSet \/ StJoin \/ StLow \/ StClr \/ SmStart

\* SpecLED with every thread scheduled again and again: a blink thread that
\* can take a step takes one, and a call of the main thread runs to its
\* return.  The client is free never to call again
SpecLEDLive ==
    /\ InitLED
    /\ [][NextLED]_vars
    /\ WF_vars(CallStep)
    /\ \A t \in ThreadIds : WF_vars(ThreadStep(t))

-----------------------------------------------------------------------------
(* GPIOController.read_position on its own: a client reads the Sampler, with
   a notification registered, under every combination of input levels *)

\* the six inputs take new levels between two reads
SamplerLevels ==
    /\ AtHead("sampler")
    /\ pins' \in [Pins -> BOOLEAN] \ {pins}
    /\ UNCHANGED <<pc, current_position, shutdown_requested, gpio_position,
                   position, swArg, pairing_mode, is_connected, audio_url,
                   since_check, log, origin, trail>>
    /\ UNCHANGED ledVars
    /\ UNCHANGED configVars

WarnsAlways == TRUE

\* read_position: `if self.current_position is not None` before the warning
Warns == gpio_position # None

\* read_position up to the call of the notification, or up to its return
\* when it makes none; log records the notification or the warning it made
ReadPosition ==
    /\ AtHead("sampler")
    /\ LET index == ReadIndex(pins)
       IN IF CallbackFires(index)
          THEN /\ gpio_position' = index
               /\ swArg' = index
               /\ log' = <<Entry("callback", <<>>, TRUE)>>
               /\ pc' = <<"read_return">>
               /\ UNCHANGED position
          ELSE IF index # None
          THEN /\ position' = index
               /\ log' = <<>>
               /\ UNCHANGED <<gpio_position, swArg, pc>>
          ELSE /\ log' = IF Warns THEN <<Entry("warning", <<>>, TRUE)>> ELSE <<>>
               /\ gpio_position' = None
               /\ position' = None
               /\ UNCHANGED <<swArg, pc>>
    /\ UNCHANGED <<current_position, shutdown_requested, pins, pairing_mode,
                   is_connected, audio_url, since_check, origin, trail>>
    /\ UNCHANGED ledVars
    /\ UNCHANGED configVars

\* read_position: `return index` after the notification has returned
ReadReturn ==
    /\ AtHead("read_return")
    /\ position' = gpio_position
    /\ pc' = <<"sampler">>
    /\ UNCHANGED <<current_position, shutdown_requested, gpio_position, pins,
                   swArg, pairing_mode, is_connected, audio_url, since_check,
                   log, origin, trail>>
    /\ UNCHANGED ledVars
    /\ UNCHANGED configVars

InitSampler ==
    /\ ConfigInit
    /\ LedInit
    /\ RadioInit
    /\ pc = <<"sampler">>

NextSampler ==
    \/ SamplerLevels
    \/ ReadPosition
    \/ ReadReturn

SpecSampler == InitSampler /\ [][NextSampler]_vars

-----------------------------------------------------------------------------
(* RadioController.run and shutdown on their own: the signal handler may run
   at any point, and a call of a collaborator either returns or raises.  The
   collaborators are stand-ins: log records their calls, since the start of
   the latest loop iteration, with ok FALSE for a call that failed. *)

SignalFlagToggled == ~shutdown_requested

\* _signal_handler: `self._shutdown_requested = True`
SignalFlag == TRUE

\* _signal_handler, at any point between the start of run() and its end
CtlSignal ==
    /\ pc # <<>>
    /\ Head(pc) \notin {"returned", "raised"}
    /\ shutdown_requested' = SignalFlag
    /\ UNCHANGED <<pc, current_position, gpio_position, pins, trail, position,
                   swArg, pairing_mode, is_connected, audio_url, since_check,
                   log, origin>>
    /\ UNCHANGED ledVars
    /\ UNCHANGED configVars

EnterShutdownUnlessError(why, calls) ==
    /\ origin' = why
    /\ log' = Append(calls, Entry("shutdown", <<>>, TRUE))
    /\ pc' = IF why = "error" THEN <<"raised">> ELSE <<"c_audio">>

\* run: control reaches `finally: self.shutdown()`, by the end of the loop
\* ("request") or from `except Exception` ("error"); calls is the log so far
EnterShutdown(why, calls) ==
    /\ origin' = why
    /\ log' = Append(calls, Entry("shutdown", <<>>, TRUE))
    /\ pc' = <<"c_audio">>

LoopExitsNever == FALSE

\* run: the negation of the while test `not self._shutdown_requested`
LoopExits == shutdown_requested

\* run: the while test
CtlWhile ==
    /\ AtHead("c_while")
    /\ IF LoopExits
       THEN EnterShutdown("request", log)
       ELSE /\ log' = <<>>
            /\ pc' = <<"c_read">>
            /\ UNCHANGED origin
    /\ UNCHANGED <<current_position, shutdown_requested, gpio_position, pins,
                   trail, position, swArg, pairing_mode, is_connected,
                   audio_url, since_check>>
    /\ UNCHANGED ledVars
    /\ UNCHANGED configVars

\* run: `position = self.gpio.read_position()`, with the notification
\* _position_changed it makes; GPIO.input may raise, and so may the transition
\* the notification starts, after it has stored the new position
CtlRead ==
    /\ AtHead("c_read")
    /\ \E levels \in PinReadings, outcome \in {"returns", "input_raises",
                                               "callback_raises"} :
         LET index == ReadIndex(levels)
             notified == CallbackFires(index) /\ outcome # "input_raises"
             switched == notified /\ ~SamePosition(index)
             calls == Append(log, Entry("read_position", <<>>,
                                        outcome = "returns"))
         IN /\ outcome = "callback_raises" => switched
            /\ pins' = levels
            /\ gpio_position' = IF outcome = "input_raises" THEN gpio_position
                                ELSE index
            /\ current_position' = IF switched THEN index ELSE current_position
            /\ trail' = IF switched THEN Latest(Append(trail, index)) ELSE trail
            /\ IF outcome = "returns"
               THEN /\ position' = index
                    /\ log' = calls
                    /\ pc' = <<"c_compare">>
                    /\ UNCHANGED origin
               ELSE /\ position' = None
                    /\ EnterShutdown("error", calls)
    /\ UNCHANGED <<shutdown_requested, swArg, pairing_mode, is_connected,
                   audio_url, since_check>>
    /\ UNCHANGED ledVars
    /\ UNCHANGED configVars

\* run: the comparison and `self._switch_to_position(position)`, which may
\* raise after it has stored the new position
CtlCompare ==
    /\ AtHead("c_compare")
    /\ IF Differs(position)
       THEN \E raised \in BOOLEAN :
              LET calls == Append(log, Entry("switch_to_position", <<>>, ~raised))
              IN /\ current_position' = position
                 /\ trail' = Latest(Append(trail, position))
                 /\ IF raised
                    THEN EnterShutdown("error", calls)
                    ELSE /\ log' = calls
                         /\ pc' = <<"c_recheck">>
                         /\ UNCHANGED origin
       ELSE /\ pc' = <<"c_recheck">>
            /\ UNCHANGED <<current_position, trail, log, origin>>
    /\ position' = None
    /\ UNCHANGED <<shutdown_requested, gpio_position, pins, swArg,
                   pairing_mode, is_connected, audio_url, since_check>>
    /\ UNCHANGED ledVars
    /\ UNCHANGED configVars

\* run: the periodic `self._update_bluetooth_led()`, which may raise, with
\* `last_bluetooth_check = now`, and the sleep that ends the iteration
CtlRecheck ==
    /\ AtHead("c_recheck")
    /\ IF BluetoothCheckDue
       THEN \E raised \in BOOLEAN :
              LET calls == Append(log, Entry("update_bluetooth_led", <<>>, ~raised))
              IN IF raised
                 THEN /\ EnterShutdown("error", calls)
                      /\ UNCHANGED since_check
                 ELSE /\ log' = calls
                      /\ since_check' \in Later(0)
                      /\ pc' = <<"c_while">>
                      /\ UNCHANGED origin
       ELSE /\ since_check' \in Later(since_check)
            /\ pc' = <<"c_while">>
            /\ UNCHANGED <<log, origin>>
    /\ UNCHANGED <<current_position, shutdown_requested, gpio_position, pins,
                   trail, position, swArg, pairing_mode, is_connected,
                   audio_url>>
    /\ UNCHANGED ledVars
    /\ UNCHANGED configVars

\* shutdown: self.audio.stop(), which handles its own failure
CtlAudioStop ==
    /\ AtHead("c_audio")
    /\ \E ok \in BOOLEAN :
         /\ audio_url' = AfterAudioStop(ok)
         /\ log' = Append(log, Entry("audio_stop", <<>>, ok))
    /\ pc' = <<"c_pairing">>
    /\ UNCHANGED <<current_position, shutdown_requested, gpio_position, pins,
                   trail, position, swArg, pairing_mode, is_connected,
                   since_check, origin>>
    /\ UNCHANGED ledVars
    /\ UNCHANGED configVars

\* shutdown: self.bluetooth.disable_pairing_mode(), which handles its own
\* failure
CtlDisablePairing ==
    /\ AtHead("c_pairing")
    /\ \E ok \in BOOLEAN :
         /\ pairing_mode' = AfterDisablePairing(ok)
         /\ log' = Append(log, Entry("disable_pairing_mode", <<>>, ok))
    /\ pc' = <<"c_led_stop">>
    /\ UNCHANGED <<current_position, shutdown_requested, gpio_position, pins,
                   trail, position, swArg, is_connected, audio_url,
                   since_check, origin>>
    /\ UNCHANGED ledVars
    /\ UNCHANGED configVars

\* shutdown: a call that handles no failure of its own; when it raises,
\* nothing in shutdown() or run() catches the exception
Unguarded(op, next) ==
    \E raised \in BOOLEAN :
      /\ log' = Append(log, Entry(op, <<>>, ~raised))
      /\ pc' = IF raised THEN <<"raised">> ELSE <<next>>

\* shutdown: self.morse_led.stop()
CtlLedStop ==
    /\ AtHead("c_led_stop")
    /\ Unguarded("stop", "c_led_cleanup")
    /\ UNCHANGED <<current_position, shutdown_requested, gpio_position, pins,
                   trail, position, swArg, pairing_mode, is_connected,
                   audio_url, since_check, origin>>
    /\ UNCHANGED ledVars
    /\ UNCHANGED configVars

\* shutdown: self.morse_led.cleanup()
CtlLedCleanup ==
    /\ AtHead("c_led_cleanup")
    /\ Unguarded("cleanup", "c_gpio")
    /\ UNCHANGED <<current_position, shutdown_requested, gpio_position, pins,
                   trail, position, swArg, pairing_mode, is_connected,
                   audio_url, since_check, origin>>
    /\ UNCHANGED ledVars
    /\ UNCHANGED configVars

\* shutdown: self.gpio.cleanup(), after which shutdown() and run() return
CtlGpioCleanup ==
    /\ AtHead("c_gpio")
    /\ Unguarded("gpio_cleanup", "returned")
    /\ UNCHANGED <<current_position, shutdown_requested, gpio_position, pins,
                   trail, position, swArg, pairing_mode, is_connected,
                   audio_url, since_check, origin>>
    /\ UNCHANGED ledVars
    /\ UNCHANGED configVars

InitRun ==
    /\ ConfigInit
    /\ RadioInit
    /\ LedInit
    /\ pc = <<"c_while">>

NextRun ==
    \/ CtlSignal
    \/ CtlWhile
    \/ CtlRead
    \/ CtlCompare
    \/ CtlRecheck
    \/ CtlAudioStop
    \/ CtlDisablePairing
    \/ CtlLedStop
    \/ CtlLedCleanup
    \/ CtlGpioCleanup

SpecRun == InitRun /\ [][NextRun]_vars

-----------------------------------------------------------------------------
(* MorseLED._text_to_morse and MorseLED._blink_pattern on their own: one blink
   thread encodes a message and emits the pattern once, nothing stopping it.
   The message and the dot duration are any of a bounded set; durations are in
   whole milliseconds. *)

MaxLen == 3

\* mapped letters, the space, lower-case letters and a character without a code
MorseAlphabet == {"S", "O", "A", " ", "s", "a", "#"}

Texts == UNION {[1..n -> MorseAlphabet] : n \in 0..MaxLen}

\* morse_dot_duration_ms: the least, the default and the greatest that
\* RadioConfig accepts
DotDurations == {50, 100, 500}

\* the lamp held at one level for a time, by a branch of _blink_pattern
Held(on, ms, by) == [on |-> on, ms |-> ms, by |-> by]

\* _blink_pattern with a letter gap slept in full after the element gap
BlinkElementFullGap(element) ==
    IF element = "."
    THEN <<Held(TRUE, dot_duration, "dot"), Held(FALSE, element_gap, "dot")>>
    ELSE IF element = "-"
    THEN <<Held(TRUE, dash_duration, "dash"), Held(FALSE, element_gap, "dash")>>
    ELSE IF element = " "
    THEN <<Held(FALSE, letter_gap, "letter_gap")>>
    ELSE <<Held(FALSE, word_gap - letter_gap, "word_gap")>>

\* _blink_pattern: the body of the for loop, for one element
BlinkElement(element) ==
    IF element = "."
    THEN <<Held(TRUE, dot_duration, "dot"), Held(FALSE, element_gap, "dot")>>
    ELSE IF element = "-"
    THEN <<Held(TRUE, dash_duration, "dash"), Held(FALSE, element_gap, "dash")>>
    ELSE IF element = " "
    THEN <<Held(FALSE, letter_gap - element_gap, "letter_gap")>>
    ELSE <<Held(FALSE, word_gap - letter_gap, "word_gap")>>

\* _blink_loop: morse_pattern = self._text_to_morse(self._current_message)
MorseEncode ==
    /\ threads[1].pc = "enc"
    /\ threads' = [threads EXCEPT ![1] = [pc |-> "emit",
                                           pat |-> TextToMorse(current_message),
                                           idx |-> 1]]
    /\ UNCHANGED <<setup_complete, lamp, stop_event, thread, current_message,
                   joinRem, pc, smArg, call, dot_ms, emitted>>
    /\ UNCHANGED radioVars
    /\ UNCHANGED configVars

\* _blink_pattern: one pass of the for loop
MorseElement ==
    /\ threads[1].pc = "emit"
    /\ threads[1].idx <= Len(threads[1].pat)
    /\ LET element == threads[1].pat[threads[1].idx]
       IN /\ emitted' = emitted \o BlinkElement(element)
          /\ lamp' = IF IsMark(element) THEN FALSE ELSE lamp
    /\ threads' = [threads EXCEPT ![1].idx = @ + 1]
    /\ UNCHANGED <<setup_complete, stop_event, thread, current_message,
                   joinRem, pc, smArg, call, dot_ms>>
    /\ UNCHANGED radioVars
    /\ UNCHANGED configVars

\* _blink_pattern: the for loop is exhausted and the call returns
MorseReturn ==
    /\ threads[1].pc = "emit"
    /\ threads[1].idx > Len(threads[1].pat)
    /\ threads' = [threads EXCEPT ![1].pc = "gap"]
    /\ UNCHANGED <<setup_complete, lamp, stop_event, thread, current_message,
                   joinRem, pc, smArg, call, dot_ms, emitted>>
    /\ UNCHANGED radioVars
    /\ UNCHANGED configVars

\* a blink thread that has found the message set and is about to encode it
InitMorse ==
    /\ ConfigInit
    /\ RadioInit
    /\ setup_complete = TRUE
    /\ lamp = FALSE
    /\ stop_event = FALSE
    /\ thread = 1
    /\ current_message \in Texts
    /\ threads = [t \in ThreadIds |->
                    IF t = 1 THEN [pc |-> "enc", pat |-> <<>>, idx |-> 0]
                    ELSE NoThread]
    /\ joinRem = 0
    /\ smArg = <<>>
    /\ call = NoCall
    /\ dot_ms \in DotDurations
    /\ emitted = <<>>
    /\ pc = <<"idle">>

NextMorse ==
    \/ MorseEncode
    \/ MorseElement
    \/ MorseReturn

SpecMorse == InitMorse /\ [][NextMorse]_vars

-----------------------------------------------------------------------------
(* ConfigManager on its own: a client loads and reloads the configuration,
   the stored file being any of Files and changing between the calls *)

\* ConfigManager.load, with cached the value of self._config at the call
Load(cached) ==
    IF cached # NoConfig
    THEN /\ config' = cached
         /\ loaded' = LoadReturned(cached)
    ELSE IF stored.kind = "missing"
    THEN /\ config' = DefaultConfig
         /\ loaded' = LoadReturned(DefaultConfig)
    ELSE IF LoadRaises(stored) = "none"
    THEN /\ config' = Constructed(stored)
         /\ loaded' = LoadReturned(Constructed(stored))
    ELSE IF Caught(LoadRaises(stored))
    THEN /\ config' = DefaultConfig
         /\ loaded' = LoadReturned(DefaultConfig)
    ELSE /\ config' = NoConfig
         /\ loaded' = LoadRaised(LoadRaises(stored))

\* a call of load()
ConfigLoad ==
    /\ Load(config)
    /\ UNCHANGED <<stored, pc>>
    /\ UNCHANGED ledVars
    /\ UNCHANGED radioVars

\* a call of reload(): self._config = None, then load()
ConfigReload ==
    /\ Load(NoConfig)
    /\ UNCHANGED <<stored, pc>>
    /\ UNCHANGED ledVars
    /\ UNCHANGED radioVars

\* the stored file is written, removed or replaced
FileChanges ==
    /\ stored' \in Files
    /\ UNCHANGED <<config, loaded, pc>>
    /\ UNCHANGED ledVars
    /\ UNCHANGED radioVars

\* a ConfigManager just constructed, over any file
InitConfig ==
    /\ RadioInit
    /\ LedInit
    /\ pc = <<"config">>
    /\ stored \in Files
    /\ config = NoConfig
    /\ loaded = LoadRaised("none")

NextConfig ==
    \/ ConfigLoad
    \/ ConfigReload
    \/ FileChanges

SpecConfig == InitConfig /\ [][NextConfig]_vars

-----------------------------------------------------------------------------
(* MorseLED._blink_loop on its own, with the flag set at any moment: one blink
   thread repeats its message until it finds _stop_event set.  emitted starts
   afresh when a pattern begins and when the flag is set, so that with the flag
   set it holds what the thread has emitted since. *)

\* _blink_loop: the while test, then `if self._current_message`
LoopTest ==
    /\ threads[1].pc = "test"
    /\ threads' = [threads EXCEPT ![1].pc =
                       IF stop_event THEN "dead"
                       ELSE IF current_message # <<>> THEN "enc"
                       ELSE "nap"]
    /\ UNCHANGED <<setup_complete, lamp, stop_event, thread, current_message,
                   joinRem, pc, smArg, call, dot_ms, emitted>>
    /\ UNCHANGED radioVars
    /\ UNCHANGED configVars

\* _blink_loop: time.sleep(self.word_gap) after the pattern
LoopGap ==
    /\ threads[1].pc = "gap"
    /\ threads' = [threads EXCEPT ![1] = [pc |-> "test", pat |-> <<>>, idx |-> 0]]
    /\ emitted' = <<>>
    /\ UNCHANGED <<setup_complete, lamp, stop_event, thread, current_message,
                   joinRem, pc, smArg, call, dot_ms>>
    /\ UNCHANGED radioVars
    /\ UNCHANGED configVars

\* _blink_loop: time.sleep(0.1) when there is no message
LoopNap ==
    /\ threads[1].pc = "nap"
    /\ threads' = [threads EXCEPT ![1].pc = "test"]
    /\ UNCHANGED <<setup_complete, lamp, stop_event, thread, current_message,
                   joinRem, pc, smArg, call, dot_ms, emitted>>
    /\ UNCHANGED radioVars
    /\ UNCHANGED configVars

\* stop: self._stop_event.set(), while the thread is alive
StopRequested ==
    /\ ~stop_event
    /\ Alive(1)
    /\ stop_event' = TRUE
    /\ emitted' = <<>>
    /\ UNCHANGED <<setup_complete, lamp, thread, current_message, threads,
                   joinRem, pc, smArg, call, dot_ms>>
    /\ UNCHANGED radioVars
    /\ UNCHANGED configVars

\* a blink thread just started on a message, the flag clear
InitCancel ==
    /\ ConfigInit
    /\ RadioInit
    /\ setup_complete = TRUE
    /\ lamp = FALSE
    /\ stop_event = FALSE
    /\ thread = 1
    /\ current_message \in Texts
    /\ threads = [t \in ThreadIds |->
                    IF t = 1 THEN [pc |-> "test", pat |-> <<>>, idx |-> 0]
                    ELSE NoThread]
    /\ joinRem = 0
    /\ smArg = <<>>
    /\ call = NoCall
    /\ dot_ms = DotMs
    /\ emitted = <<>>
    /\ pc = <<"idle">>

NextCancel ==
    \/ LoopTest
    \/ MorseEncode
    \/ MorseElement
    \/ MorseReturn
    \/ LoopGap
    \/ LoopNap
    \/ StopRequested

SpecCancel == InitCancel /\ [][NextCancel]_vars

----------------------------------------------------------------------------
(* Claims about the Blink Scheduler, checked under SpecLED *)

\* a MorseLED call has returned to the client and no later call has begun
Returned(op) == AtHead("client") /\ call.op = op

\* C1 (as claimed): at most one background blink run is alive at any
\* instant, whatever the order of start_message, stop and set_state calls.
C1_AtMostOneRunAlive == Cardinality(AliveThreads) <= 1

\* C2 (as claimed): after start_message(m) has returned and before any later
\* call, the message the blink run encodes on its loop iterations is m.
C2_SignalingAfterStartMessage ==
    Returned("start_message") => current_message = call.msg

\* C3 (as claimed): whenever stop() returns, join timed out or not, the lamp
\* is off at the moment of the return.
C3_LampOffWhenStopReturns == [][StClr => ~lamp']_vars

\* C4 (as claimed): once stop() has returned without its join timing out, no
\* blink run is alive and the lamp is off until the next call.
C4_StoppedAfterStopReturns ==
    (Returned("stop") /\ ~call.timedOut) => (AliveThreads = {} /\ ~lamp)

\* C5 (as claimed): once set_state(on) has returned, no blink run is alive
\* and the lamp holds the level `on` until the next call.
C5_SteadyAfterSetState ==
    Returned("set_state") => (AliveThreads = {} /\ lamp = call.level)

\* C5 (amended): set_state(on) writes the level `on` to the lamp and stops no
\* run (the runs alive at the call are alive, in the same position, when it
\* returns); after it has returned with no run alive, the lamp keeps the
\* level `on` until the next call.
C5_SetStateWritesLevelOnly ==
    [][/\ ClientSetState =>
            (lamp' = call'.level /\ threads' = threads /\ stop_event' = stop_event)
       /\ (Returned("set_state") /\ AliveThreads = {} /\ lamp = call.level) =>
            (lamp' = lamp \/ call' # call)]_vars

\* C5 witness: set_state(True) has returned while a blink run is still alive.
C5_Witness ==
    Returned("set_state") /\ call.level /\ lamp /\ AliveThreads # {}

\* C6: stop() called in Idle (lamp off, no run) leaves the Scheduler Idle all
\* through the call and after it: lamp off, no run created.
C6_StopWhenIdleIsNoOp == (call.op = "stop" /\ call.idle) => Idle

\* C6 witness: a stop() begun in Idle has returned, on a lamp that is set up
\* and after an earlier run had existed.
C6_Witness ==
    Returned("stop") /\ call.idle /\ setup_complete /\ thread # 0

----------------------------------------------------------------------------
(* Claims about the Coordinator, checked under Spec *)

\* the calls recorded in the current iteration, without their results
Calls == [i \in 1..Len(log) |-> [op |-> log[i].op, arg |-> log[i].arg]]

IsPrefix(s, t) == Len(s) <= Len(t) /\ \A i \in 1..Len(s) : s[i] = t[i]

\* _switch_to_station or _switch_to_bluetooth has not returned yet
InTransition ==
    \E i \in 1..Len(pc) : pc[i] \in {"sta_disable", "sta_play", "bt_stop", "bt_sink"}

\* the transition of this iteration has returned
TransitionDone == ~InTransition

\* C7: _switch_to_position called with the Coordinator's current position
\* changes nothing: current_position stays, no collaborator call is recorded or
\* begun, and no Scheduler, Audio Output or Pairing Output state changes.
C7_SamePositionChangesNothing ==
    [][(AtHead("sw_pos") /\ swArg = current_position /\ pc' # pc) =>
         /\ pc' = Tail(pc)
         /\ current_position' = current_position
         /\ log' = log
         /\ call' = call
         /\ audio_url' = audio_url
         /\ pairing_mode' = pairing_mode
         /\ is_connected' = is_connected
         /\ stop_event' = stop_event
         /\ current_message' = current_message
         /\ thread' = thread
         /\ smArg' = smArg]_vars

\* the callback of a repeated position (after a read of none) has returned
\* without a transition
C7_Witness ==
    /\ pc = <<"run_cmp">>
    /\ position = current_position
    /\ origin = "none"
    /\ log = <<>>

\* the calls of a transition to station slot p, in order
StationCalls(p) ==
    << [op |-> "disable_pairing_mode", arg |-> <<>>],
       [op |-> "start_message", arg |-> Stations[p + 1].morse_message],
       [op |-> "play_stream", arg |-> Stations[p + 1].url] >>

\* C8: during a transition to a station slot P the calls made so far are an
\* initial part of: disable_pairing_mode, start_message(P's identifier),
\* play_stream(P's locator); when the transition has returned all three have
\* been made, once each, whatever disable_pairing_mode's outcome was.
C8_StationTransitionOrder ==
    (origin = "switch" /\ current_position \in 0..4) =>
        /\ IsPrefix(Calls, StationCalls(current_position))
        /\ TransitionDone => Calls = StationCalls(current_position)
        /\ Len(log) = 3 => TransitionDone

\* a station transition has returned although disable_pairing_mode failed
C8_Witness ==
    /\ origin = "switch"
    /\ current_position \in 0..4
    /\ TransitionDone
    /\ Len(log) = 3
    /\ ~log[1].ok

\* the calls of a transition to position 5, in order
BluetoothCalls ==
    << [op |-> "audio_stop", arg |-> <<>>],
       [op |-> "start_message", arg |-> <<"B", "T">>],
       [op |-> "switch_to_bluetooth_sink", arg |-> <<>>] >>

\* C9: during a transition to position 5 the calls made so far are an initial
\* part of: audio stop, start_message(pairing identifier),
\* switch_to_bluetooth_sink; when the transition has returned all three have
\* been made, once each.
C9_BluetoothTransitionOrder ==
    (origin = "switch" /\ current_position = 5) =>
        /\ IsPrefix(Calls, BluetoothCalls)
        /\ TransitionDone => Calls = BluetoothCalls
        /\ Len(log) = 3 => TransitionDone

\* a transition to position 5 has returned
C9_Witness ==
    /\ origin = "switch"
    /\ current_position = 5
    /\ TransitionDone
    /\ Len(log) = 3

\* play_stream returned false in the transition of this iteration
PlayFailed ==
    /\ origin = "switch"
    /\ Len(log) = 3
    /\ log[3].op = "play_stream"
    /\ ~log[3].ok

\* C10: after play_stream returned false for station P, current_position is
\* P, no Scheduler stop or set_state call was made by the Coordinator, and the
\* message the Scheduler blinks is still station P's identifier.
C10_IdentifierKeepsBlinking ==
    PlayFailed =>
        /\ current_position \in 0..4
        /\ log[3].arg = Stations[current_position + 1].url
        /\ \A i \in 1..Len(log) : log[i].op \notin {"stop", "set_state"}
        /\ current_message = Stations[current_position + 1].morse_message

\* C10, the Coordinator's part: a failed play_stream leaves current_position at
\* P with no stop or set_state call, and play_stream is called only by a
\* transition, which changes current_position.
C10_NoRetryNoStop ==
    /\ PlayFailed =>
         /\ current_position \in 0..4
         /\ log[3].arg = Stations[current_position + 1].url
         /\ \A i \in 1..Len(log) : log[i].op \notin {"stop", "set_state"}
    /\ (\E i \in 1..Len(log) : log[i].op = "play_stream") => origin = "switch"

\* the active configuration of the radio
ActiveConfig ==
    [position |-> current_position, message |-> current_message,
     url |-> audio_url, pairing |-> pairing_mode]

\* the transition of this iteration has returned and none of its calls failed
Settled ==
    /\ origin = "switch"
    /\ TransitionDone
    /\ Len(log) = 3
    /\ \A i \in 1..Len(log) : log[i].ok

\* the configuration in which processing position p alone, from the initial
\* state, ends (the case trail = <<p>> of C11 checks that it does)
ConfigAlone(p) ==
    [position |-> p,
     message |-> <<>>,
     url |-> IF p = 5 THEN <<>> ELSE Stations[p + 1].url,
     pairing |-> (p = 5)]

EmitsPairingMark(t) ==
    /\ threads[t].pc = "emit"
    /\ threads[t].pat = TextToMorse(bluetooth_morse)
    /\ threads'[t].pc = "lo"
    /\ lamp'

\* positions 0, 5, 0 have been processed and the return to 0 has completed
BackAtStation == trail = <<0, 5, 0>> /\ current_position = 0 /\ TransitionDone

\* C12: in the position sequence 0, 5, 0 with every status query reporting
\* disconnected, entering 5 stops the Audio Output and attempts the sink switch,
\* returning to 0 requests station 0's stream, and once the return to 0 has
\* completed no blink run switches the lamp on for the pairing identifier.
C12_NoPairingMessageAfterReturn ==
    /\ [](trail = <<0, 5>> /\ origin = "switch" /\ TransitionDone
             => Calls = BluetoothCalls)
    /\ [](trail = <<0, 5, 0>> /\ origin = "switch" /\ TransitionDone
             => Calls = StationCalls(0))
    /\ [][(BackAtStation /\ ~is_connected)
             => \A t \in ThreadIds : ~EmitsPairingMark(t)]_vars

\* _update_bluetooth_led has returned from a re-check whose status query
\* reported `connected`
RecheckReturned(connected) ==
    /\ AtHead("run_sleep")
    /\ origin = "recheck"
    /\ log # <<>>
    /\ log[1].op = "check_connection_status"
    /\ log[1].ok = connected

\* C13: when _update_bluetooth_led returns from a re-check that found the link
\* connected, the lamp is on and no blink run is alive.
C13_SteadyOnWhenConnected ==
    RecheckReturned(TRUE) => (lamp /\ AliveThreads = {})

\* C14: when _update_bluetooth_led returns from a re-check that found the link
\* not connected, it has called start_message with the pairing identifier (on
\* every such check), and the Scheduler is Signaling that identifier: its
\* blink thread is alive and the message it encodes is the pairing identifier.
C14_SignalingWhenDisconnected ==
    RecheckReturned(FALSE) =>
        /\ \E i \in 1..Len(log) :
             log[i].op = "start_message" /\ log[i].arg = <<"B", "T">>
        /\ thread \in AliveThreads
        /\ current_message = <<"B", "T">>

\* C14, the Coordinator's part: every re-check that finds the link not
\* connected calls set_state(False) and then start_message(bluetooth_morse).
C14_StartMessageOnEveryCheck ==
    RecheckReturned(FALSE) =>
        Calls = << [op |-> "check_connection_status", arg |-> <<>>],
                   [op |-> "set_state", arg |-> <<"off">>],
                   [op |-> "start_message", arg |-> <<"B", "T">>] >>

\* a step in which check_connection_status() is called
StatusQueried == ~AtHead("ubl_query") /\ AtHead("ubl_query")'

\* C15: the pairing connection status is queried only while current_position
\* is 5, and only when at least bluetooth_check_interval has passed on the
\* loop's clock since the reading of it that went with the previous query.
C15_StatusQueryOnlyWhenDue ==
    /\ [](AtHead("ubl_query") => current_position = 5)
    /\ [][StatusQueried =>
            /\ current_position = 5
            /\ since_check >= bluetooth_check_interval]_vars

\* a query is in progress after an earlier one found the link connected
C15_Witness ==
    /\ AtHead("ubl_query")
    /\ is_connected
    /\ since_check = bluetooth_check_interval

\* C16: a pairing-status query in progress does not block position sampling:
\* while check_connection_status() has not returned, the run loop can read the
\* Position Sampler (and so act on a position change).
C16_QueryDoesNotBlockSampling ==
    AtHead("ubl_query") => ENABLED RunLoop

\* a loop iteration whose read_position finds all six inputs inactive
ReadsNone ==
    /\ ~shutdown_requested
    /\ RunLoop
    /\ pins' = [i \in Pins |-> FALSE]

\* what the claims of C17 name: currentPosition, the Scheduler's state and
\* lamp, the Audio Output and the Pairing Output
Outputs ==
    <<current_position, lamp, stop_event, thread, current_message, threads,
      audio_url, pairing_mode>>

\* C17 as stated: when all six inputs read inactive, read_position returns
\* none and the iteration ends with no action of the Coordinator.
C17_NoneReadTakesNoAction ==
    [][ReadsNone =>
          /\ gpio_position' = None
          /\ UNCHANGED Outputs
          /\ pc' = <<"run_loop">>]_vars

\* C17, amended: when all six inputs read inactive, read_position returns
\* none and the Coordinator makes no transition: the read leaves the outputs
\* unchanged and no _switch_to_position is called; the iteration either ends
\* there or, when current_position is 5 and the interval has passed, goes on
\* to the periodic re-check.
C17_NoneReadMakesNoTransition ==
    [][ReadsNone =>
          /\ gpio_position' = None
          /\ UNCHANGED Outputs
          /\ \/ pc' = <<"run_loop">>
             \/ BluetoothCheckDue /\ pc' = <<"ubl", "run_sleep">>]_vars

\* all inputs were read inactive at position 5 and the re-check follows
C17_Witness ==
    /\ pins = [i \in Pins |-> FALSE]
    /\ gpio_position = None
    /\ current_position = 5
    /\ pc = <<"ubl", "run_sleep">>
    /\ trail = <<5>>
    /\ is_connected

-----------------------------------------------------------------------------
(* Claims about the Position Sampler, checked under SpecSampler *)

\* r is the lowest index whose input is active, or none when no input is
AnswerFor(levels, r) ==
    IF \E i \in Pins : levels[i]
    THEN r \in Pins /\ levels[r] /\ \A j \in Pins : j < r => ~levels[j]
    ELSE r = None

\* a step in which read_position returns
ReadReturns == (ReadPosition \/ ReadReturn) /\ pc' = <<"sampler">>

\* the notifications the log records
Notifications == SelectSeq(log, LAMBDA e : e.op = "callback")

\* C18: for every combination of levels on the six inputs, read_position
\* returns the lowest index whose input is active, or none when no input is
\* active; the inputs after the first active one do not affect the result.
C18_ReturnsLowestActive ==
    [][ReadReturns =>
          /\ AnswerFor(pins, position')
          /\ \A other \in [Pins -> BOOLEAN] :
               (/\ position' # None
                /\ \A j \in Pins : j <= position' => other[j] = pins[j])
               => ReadIndex(other) = position']_vars

\* index 2 was returned with a later input active as well
C18_Witness ==
    /\ pc = <<"sampler">>
    /\ position = 2
    /\ pins = [i \in Pins |-> i \in {2, 4}]
    /\ log = <<>>

\* C19: read_position invokes the notification exactly once, with the new
\* index and before it returns, if and only if the active index it is about
\* to return differs from the Sampler's previously reported position; it then
\* returns that index without another notification.
C19_NotifiesOnceOnChange ==
    /\ [][ReadPosition =>
            \A r \in Pins \cup {None} :
              AnswerFor(pins, r) =>
                IF r # None /\ r # gpio_position
                THEN /\ Notifications' = <<Entry("callback", <<>>, TRUE)>>
                     /\ swArg' = r
                     /\ pc' = <<"read_return">>
                     /\ UNCHANGED position
                ELSE /\ Notifications' = <<>>
                     /\ pc' = <<"sampler">>
                     /\ position' = r]_vars
    /\ [][ReadReturn => position' = swArg /\ UNCHANGED <<log, swArg>>]_vars

\* index 3 was returned after one notification of it, with a later input
\* active as well
C19_Witness ==
    /\ pc = <<"sampler">>
    /\ position = 3
    /\ swArg = 3
    /\ gpio_position = 3
    /\ pins = [i \in Pins |-> i \in {3, 5}]
    /\ Len(Notifications) = 1

\* C20: when no input is active, read_position returns none and invokes no
\* notification, whether or not a position was reported before; when one was
\* it logs a warning, and nothing of the Coordinator or the outputs changes.
C20_NoneActiveNoNotification ==
    [][(ReadPosition /\ pins = [i \in Pins |-> FALSE]) =>
          /\ position' = None
          /\ pc' = <<"sampler">>
          /\ log' = IF gpio_position # None
                    THEN <<Entry("warning", <<>>, TRUE)>>
                    ELSE <<>>
          /\ UNCHANGED <<swArg, Outputs>>]_vars

\* none was returned, with the warning, after a position had been reported
C20_Witness ==
    /\ pc = <<"sampler">>
    /\ pins = [i \in Pins |-> FALSE]
    /\ position = None
    /\ gpio_position = None
    /\ swArg # None
    /\ log = <<Entry("warning", <<>>, TRUE)>>

-----------------------------------------------------------------------------
(* Claims about run() and shutdown(), checked under SpecRun *)

\* the number of times shutdown() has been entered
ShutdownsBegun == Len(SelectSeq(log, LAMBDA e : e.op = "shutdown"))

\* the calls shutdown() has made, in order
ShutdownCalls ==
    LET names == [i \in 1..Len(log) |-> log[i].op]
        first == CHOOSE i \in 1..Len(log) : names[i] = "shutdown"
    IN IF ShutdownsBegun = 0 THEN <<>>
       ELSE SubSeq(names, first + 1, Len(names))

InLoop == pc # <<>> /\ Head(pc) \in {"c_while", "c_read", "c_compare", "c_recheck"}

\* C21: once shutdown_requested is set, the while test starts no new
\* iteration but enters shutdown(); no iteration starts after shutdown() has
\* been entered, shutdown() is entered at most once, and when run() has
\* returned it has been entered exactly once and has made all its calls.
C21_NoNewIterationThenShutdownOnce ==
    /\ [][(shutdown_requested /\ AtHead("c_while") /\ pc' # pc) =>
             (AtHead("c_audio")' /\ origin' = "request")]_vars
    /\ [](ShutdownsBegun <= 1)
    /\ [](InLoop => ShutdownsBegun = 0)
    /\ [](AtHead("returned") =>
             /\ ShutdownsBegun = 1
             /\ ShutdownCalls = <<"audio_stop", "disable_pairing_mode", "stop",
                                  "cleanup", "gpio_cleanup">>)

\* run() has returned after a request that arrived at position 5
C21_Witness ==
    /\ AtHead("returned")
    /\ shutdown_requested
    /\ origin = "request"
    /\ current_position = 5
    /\ ShutdownsBegun = 1

\* C22: shutdown_requested only ever changes from false to true: no step of
\* the signal handler, of run() or of shutdown() resets it once it is set.
C22_ShutdownRequestedNeverReset ==
    [][shutdown_requested => shutdown_requested']_vars

\* the flag was set during an iteration, which goes on with the flag set
C22_Witness ==
    /\ shutdown_requested
    /\ AtHead("c_recheck")
    /\ current_position = 5
    /\ ShutdownsBegun = 0

\* the place of the call named op among the calls shutdown() has made
PlaceOf(op) == CHOOSE i \in 1..Len(ShutdownCalls) : ShutdownCalls[i] = op

\* C23: the shutdown sequence performs its steps in the order: stop the
\* Scheduler, disable pairing discoverability, stop the Audio Output, release
\* the sampler's resources.
C23_ShutdownOrder ==
    AtHead("returned") =>
        /\ PlaceOf("stop") < PlaceOf("disable_pairing_mode")
        /\ PlaceOf("disable_pairing_mode") < PlaceOf("audio_stop")
        /\ PlaceOf("audio_stop") < PlaceOf("gpio_cleanup")

\* exactly one call of shutdown() has failed
StepFailed ==
    /\ ShutdownsBegun = 1
    /\ Cardinality({i \in 1..Len(log) :
                      /\ ~log[i].ok
                      /\ log[i].op \in {"audio_stop", "disable_pairing_mode",
                                        "stop", "cleanup", "gpio_cleanup"}}) = 1

\* C24: when a step of the shutdown sequence fails, the failure is skipped:
\* shutdown() does not end by propagating it, and goes on to make every
\* remaining call.
C24_ShutdownSkipsFailure ==
    StepFailed =>
        /\ ~AtHead("raised")
        /\ Len(ShutdownCalls) < 5 => ENABLED NextRun

\* C24, the part that holds: a failure of audio.stop() or of
\* disable_pairing_mode() is skipped and the next call is made.
C24_GuardedStepsSkipFailure ==
    \A i \in 1..Len(log) :
      (log[i].op \in {"audio_stop", "disable_pairing_mode"} /\ ~log[i].ok)
        => (i < Len(log) \/ ENABLED (CtlDisablePairing \/ CtlLedStop))

LoopCalls == {"read_position", "switch_to_position", "update_bluetooth_led"}

\* a call made by the loop iteration raised
IterationRaised == \E i \in 1..Len(log) : log[i].op \in LoopCalls /\ ~log[i].ok

\* C25: an exception raised inside a loop iteration, by the Sampler read, a
\* transition or the periodic re-check, is caught by run(): the step in which
\* it is raised enters shutdown(), as a request does; shutdown() is entered
\* once, makes the same calls as after a request, and an exception that run()
\* ends with is one that a call of shutdown() raised.
C25_LoopErrorCaughtThenShutdown ==
    /\ [][(~IterationRaised /\ IterationRaised') =>
             /\ AtHead("c_audio")'
             /\ origin' = "error"
             /\ ShutdownsBegun' = 1]_vars
    /\ [](IterationRaised => ~InLoop /\ ShutdownsBegun = 1)
    /\ [](IterationRaised /\ AtHead("returned") =>
             ShutdownCalls = <<"audio_stop", "disable_pairing_mode", "stop",
                               "cleanup", "gpio_cleanup">>)
    /\ [](IterationRaised /\ AtHead("raised") =>
             /\ log[Len(log)].op \in {"stop", "cleanup", "gpio_cleanup"}
             /\ ~log[Len(log)].ok)

\* run() has returned after the re-check raised, with no request made
C25_Witness ==
    /\ AtHead("returned")
    /\ origin = "error"
    /\ ~shutdown_requested
    /\ \E i \in 1..Len(log) : log[i].op = "update_bluetooth_led" /\ ~log[i].ok
    /\ Len(ShutdownCalls) = 5

-----------------------------------------------------------------------------
(* Claims about the lamp, checked under Spec *)

\* a step in which the log gains or renews a set_state entry
SetStateCalled ==
    /\ CheckConnectionStatus \/ UpdateBluetoothLedOn
    /\ log'[Len(log')].op = "set_state" \/
       (Len(log') > 1 /\ log'[Len(log') - 1].op = "set_state")

\* a step of a Blink Scheduler operation: of a blink thread, of setup within
\* start_message, of stop, of set_state, or of cleanup
SchedulerStep ==
    BlinkStep \/ SmBegin \/ StLow \/ SetStateCalled \/ ShutdownRelease

\* C26: only Blink Scheduler operations change the lamp output or the
\* configuration of the lamp pin: every step that changes either is a step of
\* a Scheduler operation, and the Sampler's gpio.cleanup() at shutdown finds
\* the lamp pin released already and changes neither.
C26_LampOwnedByScheduler ==
    /\ [][(lamp' # lamp \/ setup_complete' # setup_complete) =>
             SchedulerStep]_vars
    /\ [][GpioCleanup =>
             (~LampPinConfigured /\ UNCHANGED <<lamp, setup_complete>>)]_vars

\* shutdown has released the sampler's pins after the lamp had been on
\* during a connected pairing session
C26_Witness ==
    /\ AtHead("done")
    /\ log[Len(log)].op = "gpio_cleanup"
    /\ ~lamp
    /\ ~setup_complete
    /\ current_position = 5
    /\ is_connected

-----------------------------------------------------------------------------
(* Claims about the signal encoder and the emitter, checked under SpecMorse *)

\* _blink_pattern has returned
Emitted == threads[1].pc = "gap"

\* the levels held, with the times of records of one level that follow each
\* other added up
RECURSIVE Runs(_)
Runs(held) ==
    IF held = <<>> THEN <<>>
    ELSE LET first == [on |-> held[1].on, ms |-> held[1].ms]
             rest == Runs(Tail(held))
         IN IF rest # <<>> /\ rest[1].on = first.on
            THEN <<[first EXCEPT !.ms = @ + rest[1].ms]>> \o Tail(rest)
            ELSE <<first>> \o rest

\* the lamp on, and off, for n dot durations
On(n) == [on |-> TRUE, ms |-> n * dot_ms]

Off(n) == [on |-> FALSE, ms |-> n * dot_ms]

SOS == <<"S", "O", "S">>

\* C27: "SOS" is encoded as three dots, a letter gap, three dashes, a letter
\* gap and three dots, and emitting it holds the lamp on 1D for each dot and 3D
\* for each dash, off 1D between the elements of a letter and off 3D in all
\* between two letters; the last dot is followed by its element gap of 1D
C27_SosEmission ==
    (current_message = SOS /\ threads[1].pc \in {"emit", "gap"}) =>
        /\ threads[1].pat = <<".", ".", ".", " ", "-", "-", "-", " ", ".", ".", ".">>
        /\ Emitted =>
             Runs(emitted) = <<On(1), Off(1), On(1), Off(1), On(1), Off(3),
                               On(3), Off(1), On(3), Off(1), On(3), Off(3),
                               On(1), Off(1), On(1), Off(1), On(1), Off(1)>>

C27_Witness == current_message = SOS /\ Emitted /\ Len(emitted) = 20

\* the characters of a text that have a code, upper-cased
RECURSIVE Mapped(_)
Mapped(text) ==
    IF text = <<>> THEN <<>>
    ELSE LET c == IF Head(text) = "s" THEN "S"
                  ELSE IF Head(text) = "a" THEN "A"
                  ELSE Head(text)
         IN IF c \in {"S", "O", "A", " "}
            THEN <<c>> \o Mapped(Tail(text))
            ELSE Mapped(Tail(text))

\* the gap symbols of a pattern that has a word gap for each space and a letter
\* gap between two letters that follow each other
RECURSIVE GapSymbols(_)
GapSymbols(cs) ==
    IF cs = <<>> THEN <<>>
    ELSE IF cs[1] = " " THEN <<"word_gap">> \o GapSymbols(Tail(cs))
    ELSE IF Len(cs) >= 2 /\ cs[2] # " " THEN <<"letter_gap">> \o GapSymbols(Tail(cs))
    ELSE GapSymbols(Tail(cs))

\* the branches of _blink_pattern taken for the gap symbols, in order
GapsEmitted ==
    LET gaps == SelectSeq(emitted, LAMBDA h : h.by \in {"letter_gap", "word_gap"})
    IN [i \in 1..Len(gaps) |-> gaps[i].by]

\* C28: a space of the message becomes one word-gap symbol, which the
\* emitter's word-gap branch handles, and no letter-gap symbol stands at its
\* place; two letters that follow each other are separated by a letter gap
C28_SpaceIsOneWordGap ==
    Emitted => GapsEmitted = GapSymbols(Mapped(current_message))

\* the emitter's word-gap branch is never taken: every gap symbol of a pattern
\* is a space, which the letter-gap branch handles
C28_WordGapBranchNeverTaken ==
    \A i \in 1..Len(emitted) : emitted[i].by # "word_gap"

\* a space between two letters is emitted as three letter-gap symbols
C28_SpaceIsThreeLetterGaps ==
    (Emitted /\ Mapped(current_message) = <<"S", " ", "O">>) =>
        GapsEmitted = <<"letter_gap", "letter_gap", "letter_gap">>

\* a level expected for n dot durations, or for a time left open
Due(on, n, open) == [on |-> on, ms |-> n * dot_ms, open |-> open]

\* one letter: on 1D for a dot and 3D for a dash, off 1D between its elements
RECURSIVE LetterRuns(_)
LetterRuns(code) ==
    LET mark == Due(TRUE, IF code[1] = "." THEN 1 ELSE 3, FALSE)
    IN IF Len(code) = 1 THEN <<mark>>
       ELSE <<mark, Due(FALSE, 1, FALSE)>> \o LetterRuns(Tail(code))

\* the runs of a message's emission: off 3D between two letters that follow
\* each other and 7D between two letters with one space between them.  The
\* off times before the first letter, after the last and across more spaces
\* than one are left open.  spaces counts the spaces since the latest letter
RECURSIVE ExpectedRuns(_, _, _)
ExpectedRuns(text, spaces, begun) ==
    IF text = <<>>
    THEN IF begun \/ spaces > 0 THEN <<Due(FALSE, 0, TRUE)>> ELSE <<>>
    ELSE IF Head(text) = " "
    THEN ExpectedRuns(Tail(text), spaces + 1, begun)
    ELSE LET before == IF begun
                       THEN <<Due(FALSE, IF spaces = 0 THEN 3 ELSE 7, spaces > 1)>>
                       ELSE IF spaces > 0 THEN <<Due(FALSE, 0, TRUE)>>
                       ELSE <<>>
         IN before \o LetterRuns(MORSE_CODE[Head(text)])
                   \o ExpectedRuns(Tail(text), 0, TRUE)

Matches(runs, due) ==
    /\ Len(runs) = Len(due)
    /\ \A i \in 1..Len(runs) :
         /\ runs[i].on = due[i].on
         /\ due[i].open \/ runs[i].ms = due[i].ms

OverMappedAlphabet(text) == \A i \in 1..Len(text) : text[i] \in DOMAIN MORSE_CODE

\* C29: for every message over the mapped alphabet and every dot duration D,
\* one emission of the pattern holds the lamp on 1D for each dot and 3D for each
\* dash, and off 1D between the elements of a letter, 3D in all between two
\* letters that follow each other and 7D in all between two words separated by
\* one space
C29_EmissionTiming ==
    (Emitted /\ OverMappedAlphabet(current_message)) =>
        Matches(Runs(emitted), ExpectedRuns(current_message, 0, FALSE))

C29_Witness ==
    /\ Emitted
    /\ current_message = <<"A", " ", "S">>
    /\ dot_ms = 500
    /\ Runs(emitted) = <<[on |-> TRUE, ms |-> 500], [on |-> FALSE, ms |-> 500],
                         [on |-> TRUE, ms |-> 1500], [on |-> FALSE, ms |-> 3500],
                         [on |-> TRUE, ms |-> 500], [on |-> FALSE, ms |-> 500],
                         [on |-> TRUE, ms |-> 500], [on |-> FALSE, ms |-> 500],
                         [on |-> TRUE, ms |-> 500], [on |-> FALSE, ms |-> 500]>>

\* _text_to_morse has returned
Encoded == threads[1].pc \in {"emit", "gap"}

\* C30: the encoding of a message is the encoding of the message with its
\* letters upper-cased and its characters without a code deleted: a character
\* without a code adds no symbol and no gap, and case does not change the
\* pattern
C30_EncodingIgnoresCaseAndUnmapped ==
    Encoded => threads[1].pat = TextToMorse(Mapped(current_message))

C30_Witness ==
    /\ Encoded
    /\ current_message = <<"s", "#", "A">>
    /\ threads[1].pat = <<".", ".", ".", " ", ".", "-">>

-----------------------------------------------------------------------------
(* Claims about the Pairing Output, checked under Spec *)

\* the value that the check_connection_status() call of this step returns
StatusReturned == log'[1].ok

\* C31: after check_connection_status() has returned a value, the cached
\* status that get_connection_status() returns is that value, whatever the
\* status command did
C31_CacheEqualsReturnedStatus ==
    [][CheckConnectionStatus => is_connected' = StatusReturned]_vars

\* the cached status differs from the value returned only by staying True
\* over a check that returned False
C31_CacheStaleOnlyWhenConnected ==
    [][CheckConnectionStatus =>
         \/ is_connected' = StatusReturned
         \/ is_connected /\ is_connected' /\ ~StatusReturned]_vars

-----------------------------------------------------------------------------
(* Claims about the Configuration Source, checked under SpecConfig *)

\* a call of load() that finds self._config empty and reads the file
LoadReads == (ConfigLoad /\ config = NoConfig) \/ ConfigReload

\* the stored file is an object that passes the validation of RadioConfig
FitsSchema(file) == file.kind = "object" /\ LoadRaises(file) = "none"

\* C32: load() never raises and returns a configuration with exactly five
\* station bindings, the defaults whenever the stored file is missing, is not
\* JSON, or is JSON that does not fit the schema (a wrong number of stations, a
\* value out of range, a top-level value that is not an object)
C32_LoadNeverRaisesFiveStations ==
    [][(ConfigLoad \/ ConfigReload) =>
          /\ loaded'.raised = "none"
          /\ loaded'.config.stations = 5
          /\ (LoadReads /\ ~FitsSchema(stored)) => loaded'.config = DefaultConfig]_vars

\* the same for every stored file but a JSON value that is not an object
C32_LoadOfObjectNeverRaises ==
    [][((ConfigLoad \/ ConfigReload)
            /\ stored.kind \in {"missing", "not_json", "object"}) =>
          /\ loaded'.raised = "none"
          /\ loaded'.config.stations = 5
          /\ (LoadReads /\ ~FitsSchema(stored)) => loaded'.config = DefaultConfig]_vars

-----------------------------------------------------------------------------
(* Claims about cancellation, checked under SpecCancel *)

\* the lamp-on pulses emitted since the flag was set
PulsesSinceStop == Cardinality({i \in 1..Len(emitted) : emitted[i].on})

\* C33: once stop() has set the flag, the running blink thread emits at most
\* one further symbol (a pulse and its gap) before it finds the flag set and
\* ends; it does not go on through the rest of the message
C33_AtMostOneSymbolAfterStop ==
    stop_event => PulsesSinceStop <= 1

\* with the flag set, the thread still ends the pattern it is in, and begins
\* no other
C33_NoNewPatternAfterStop ==
    [][stop_event => ~(LoopTest /\ threads'[1].pc = "enc")]_vars

-----------------------------------------------------------------------------
(* Claims about the end of blink runs, checked under SpecLEDLive *)

\* a run that is not self._thread any more: start_message called stop() on
\* it, the join timed out, and a new run was started
Outlived(t) == t # thread /\ Alive(t)

\* C34: every blink run whose cancellation stop() has requested ends at some
\* time, also when the join of stop() timed out and a later start_message
\* cleared the flag to start a new run
C34_CancelledRunTerminates ==
    \A t \in ThreadIds : Outlived(t) ~> ~Alive(t)

\* if the flag is set and stays set, every run ends
C34_RunsEndWhileFlagStays ==
    (<>[]stop_event) => <>[](AliveThreads = {})

-----------------------------------------------------------------------------
(* Claims about transitions within one iteration of run(), checked under Spec *)

\* the position that the read_position() of this step finds
ReadNow == ReadIndex(pins')

\* a call of _switch_to_position that passes its guard
TransitionBegins == SwitchToPosition /\ swArg # current_position

\* C35: a read that finds a position other than the Coordinator's makes the
\* transition sequence run exactly once: _switch_to_position is called for it,
\* the call begins the transition, the comparison of the main loop that
\* follows the Sampler's notification finds the position taken already, and no
\* second transition begins in the iteration
C35_TransitionRunsOnce ==
    /\ [][(RunLoop /\ ~shutdown_requested /\ ReadNow \notin {None, current_position}) =>
             (Head(pc') = "sw_pos" /\ swArg' = ReadNow)]_vars
    /\ [][TransitionBegins =>
             (origin' = "switch" /\ current_position' = swArg
                /\ Head(pc') \in {"sta_disable", "bt_stop"})]_vars
    /\ [][RunCompare => (position = current_position /\ pc' = <<"run_bt">>)]_vars
    /\ [][TransitionBegins => origin # "switch"]_vars

\* the notification has run the transition and the main loop compares
C35_Witness ==
    /\ pc = <<"run_cmp">>
    /\ origin = "switch"
    /\ position = current_position
    /\ Len(log) > 0

\* the Sampler's notification calls _switch_to_position with the position the
\* Coordinator has
NotifiedOfSamePosition == SwitchToPosition /\ swArg = current_position

\* C36: when the samples are P, none, P, the none read clears the Sampler's
\* last position and leaves the Coordinator's, so the second P makes the
\* Sampler notify again; the Coordinator, still at P, then makes no Scheduler,
\* Audio Output or Pairing Output call
C36_GlitchNotifiesWithoutTransition ==
    /\ [][(RunLoop /\ ~shutdown_requested /\ ReadNow = None) =>
             (gpio_position' = None /\ current_position' = current_position)]_vars
    /\ [][(RunLoop /\ ~shutdown_requested /\ gpio_position = None
              /\ ReadNow # None /\ ReadNow = current_position) =>
             (pc' = <<"sw_pos", "run_cmp">> /\ swArg' = ReadNow)]_vars
    /\ [][NotifiedOfSamePosition =>
             /\ pc' = Tail(pc)
             /\ UNCHANGED <<current_position, log, origin, trail, pairing_mode,
                            audio_url, is_connected>>
             /\ UNCHANGED ledVars]_vars
    /\ [][(RunCompare /\ origin = "none") => pc' = <<"run_bt">>]_vars

\* after P, none, P: the notification for the second P has returned without
\* a transition
C36_Witness ==
    /\ pc = <<"run_cmp">>
    /\ origin = "none"
    /\ log = <<>>
    /\ position = current_position
    /\ position # None

-----------------------------------------------------------------------------
(* Claims about the lamp and the pairing flag at position 5, checked under Spec *)

\* inside a re-check at position 5 whose status query reported connected, no
\* blink run being alive
InConnectedRecheck ==
    /\ current_position = 5
    /\ origin = "recheck"
    /\ log # <<>>
    /\ log[1].op = "check_connection_status"
    /\ log[1].ok
    /\ AliveThreads = {}

C37_RecheckTurnsLampOn ==
    [][UpdateBluetoothLedOn => lamp']_vars

\* run() is in its loop: the main thread is at a statement of the loop or in
\* a call made from it
MainLoopRunning == pc[Len(pc)] \in RunLabels

\* a call of _switch_to_position made by this iteration has not returned
TransitionInProgress == Len(pc) > 1 /\ pc[Len(pc)] \in {"run_cmp", "run_bt"}

PairingCommands == {"disable_pairing_mode", "switch_to_bluetooth_sink"}

\* a pairing command of the transition of this iteration has failed
PairingCommandFailed ==
    \E i \in 1..Len(log) : log[i].op \in PairingCommands /\ ~log[i].ok

\* C38: while the main loop runs, no transition being in progress and no
\* pairing command having failed, the pairing flag is true exactly when the
\* position is 5.  It is so when a transition without a failed pairing command
\* has returned, and flag and position change during transitions only
C38_PairingIffPositionFive ==
    /\ [](MainLoopRunning /\ ~TransitionInProgress /\ origin = "switch"
             /\ ~PairingCommandFailed =>
           (pairing_mode <=> current_position = 5))
    /\ []((current_position = None) => ~pairing_mode)
    /\ [][(MainLoopRunning /\ ~TransitionInProgress) =>
             UNCHANGED <<pairing_mode, current_position>>]_vars

\* back at a station from position 5, the transition over and the flag off
C38_Witness ==
    /\ pc = <<"run_bt">>
    /\ origin = "switch"
    /\ ~PairingCommandFailed
    /\ Len(trail) >= 2
    /\ trail[Len(trail) - 1] = 5
    /\ current_position = 0
    /\ ~pairing_mode

-----------------------------------------------------------------------------
(* Claims about the state shutdown() leaves, checked under Spec *)

\* shutdown() has returned
ShutdownReturned == pc = <<"done">>

\* no step of the shutdown failed and the join of its last stop() did not
\* time out
ShutdownClean ==
    /\ origin = "shutdown"
    /\ \A i \in 1..Len(log) : log[i].ok
    /\ ~call.timedOut

\* C39: when shutdown() has returned, no step having failed and no join
\* having timed out, the lamp is off, no blink run is alive, pairing is
\* disabled, audio is stopped, and no transition or re-check follows
C39_ShutdownLeavesAllOff ==
    /\ []((ShutdownReturned /\ ShutdownClean) =>
            (~lamp /\ AliveThreads = {} /\ ~pairing_mode /\ audio_url = <<>>))
    /\ [][ShutdownReturned =>
            (ShutdownReturned' /\ UNCHANGED <<log, origin, current_position>>)]_vars

\* the same but for the blink runs and the lamp
C39_ShutdownStopsOutputs ==
    /\ []((ShutdownReturned /\ ShutdownClean) =>
            (thread # 0 => ~Alive(thread)) /\ ~pairing_mode /\ audio_url = <<>>)
    /\ [][ShutdownReturned =>
            (ShutdownReturned' /\ UNCHANGED <<log, origin, current_position>>)]_vars

====
